---- MODULE Spec2Model ----
(***************************************************************************)
(* Order management and routing engine of the trading backend              *)
(* (backend/src/order/mod.rs, backend/src/order/router.rs,                 *)
(* backend/src/exchange/crypto.rs).                                        *)
(*                                                                         *)
(* The state is the OrderManager's two maps (orders, active_orders), its   *)
(* event channel, the submission tasks spawned by place_order, the         *)
(* cancel_order and place_order calls in progress, the router's registry   *)
(* and primary-exchange map and the venue's per-order records.  Every      *)
(* action is one critical section of the code: what runs between two       *)
(* .await points while a lock guard is held.                               *)
(*                                                                         *)
(* Option<T> values are sequences: <<>> is None and <<x>> is Some(x).      *)
(* The nil Uuid is 0.  f64 quantities and prices are small integers.       *)
(* Timestamps (created_at, updated_at, last_update) are not modelled.      *)
(***************************************************************************)
EXTENDS Integers, Sequences, FiniteSets, TLC

\* ------------------------------------------------------------------ bounds
MaxOrders == 2
MaxPlace == 1
MaxCancel == 2
MaxExternal == 1
MaxUpdates == 2
MaxReplace == 2
MaxFill == 3

\* mpsc::channel(100)
ChannelCapacity == 100

Nil == 0
OrderIds == 1..MaxOrders

None == <<>>
Some(x) == <<x>>
IsSome(o) == Len(o) > 0
IsNone(o) == Len(o) = 0
Unwrap(o) == o[1]

\* ------------------------------------------------------------ order status
OrderStatus ==
    {"Created", "PendingSubmission", "Submitted", "PartiallyFilled",
     "Filled", "Cancelled", "Rejected", "Failed"}

\* Mutant of can_transition_to: the self-transition arm is missing.
can_transition_to_no_self(s, next) ==
    \/ s = "Created" /\ next = "PendingSubmission"
    \/ s = "PendingSubmission" /\ next \in {"Submitted", "Rejected", "Failed"}
    \/ s = "Submitted" /\ next \in {"PartiallyFilled", "Filled", "Cancelled", "Rejected", "Failed"}
    \/ s = "PartiallyFilled" /\ next \in {"Filled", "Cancelled", "Failed"}

\* OrderStatus::can_transition_to (mod.rs 33-57).
can_transition_to(s, next) ==
    \/ s = "Created" /\ next = "PendingSubmission"
    \/ s = "PendingSubmission" /\ next \in {"Submitted", "Rejected", "Failed"}
    \/ s = "Submitted" /\ next \in {"PartiallyFilled", "Filled", "Cancelled", "Rejected", "Failed"}
    \/ s = "PartiallyFilled" /\ next \in {"Filled", "Cancelled", "Failed"}
    \/ s = next

\* The glossary's terminal statuses (no outgoing transition in can_transition_to).
TerminalStatus == {"Filled", "Cancelled", "Rejected", "Failed"}

OrderType == {"Market", "Limit", "StopLoss", "StopLimit", "TrailingStop"}

Symbols == {"BTC/USD"}
Venues == {"A"}

\* ------------------------------------------------------------------- state
VARIABLES
    orders,               \* OrderManager.orders: id -> Order
    active_orders,        \* OrderManager.active_orders: id -> Order (a clone)
    channel,              \* the mpsc channel, oldest event first
    tasks,                \* submission tasks spawned by place_order
    places,               \* place_order calls between the insert and the New event:
                          \* the order as stored and the id the caller supplied
    cancels,              \* cancel_order calls, in progress and returned
    place_log,            \* the latest place_order call that returned Err: its argument and the error
    nplace,               \* number of place_order calls made
    exchanges,            \* OrderRouter.exchanges: name -> CryptoExchange
    primary_exchange_map, \* OrderRouter.primary_exchange_map: symbol -> name
    venue_orders,         \* CryptoExchange.orders of each venue: id -> OrderState
    nexternal,            \* number of calls made by holders of get_event_sender / update_order_status
    ever_submitted,       \* history: ids whose stored status has been Submitted
    status_seen,          \* history: id -> the statuses the store has held for it
    worker,               \* the pipeline worker: "idle", "busy" or "stopped"
    adapters,             \* the CryptoExchange instances their owners hold: name -> fields
    call,                 \* the latest router, adapter or function call: what, with what, result
    lock_threads,         \* lock-level view: thread -> its position in its code path
    locks,                \* lock-level view: lock -> the guards held, as <<thread, mode>>
    now                   \* Utc::now() as the venue adapters read it, in seconds

vars == <<orders, active_orders, channel, tasks, places, cancels, place_log, nplace,
          exchanges, primary_exchange_map, venue_orders, nexternal,
          ever_submitted, status_seen, worker, adapters, call, lock_threads, locks, now>>

managerVars == <<orders, active_orders, channel, tasks, places, cancels, place_log, nplace>>
routerVars == <<exchanges, primary_exchange_map>>
\* What the order manager's own operations never touch.
auxVars == <<adapters, call, lock_threads, locks, now>>

\* ---------------------------------------------------------------- helpers
\* No router, adapter or function call has been made.
\* `called` lists the adapters the call reached, in order; n flips with every
\* call, so that a call repeated with the same arguments is a new record.
NoCall == [op |-> "", arg |-> <<>>, result |-> <<>>, called |-> <<>>, n |-> 0]

\* The two RwLocks of the OrderManager (mod.rs 117-118), nobody holding them.
NoLocks == [store |-> {}, active |-> {}]

MapPut(m, k, v) == [x \in DOMAIN m \cup {k} |-> IF x = k THEN v ELSE m[x]]
MapRemove(m, k) == [x \in DOMAIN m \ {k} |-> m[x]]
EmptyMap == [x \in {} |-> 0]

\* History of the stored statuses: the ids that have been seen Submitted.
Observe(newOrders) ==
    ever_submitted \cup {id \in DOMAIN newOrders : newOrders[id].status = "Submitted"}

\* History of the stored statuses: every status the store has held per id.
ObserveStatus(newOrders) ==
    [id \in DOMAIN newOrders |->
        (IF id \in DOMAIN status_seen THEN status_seen[id] ELSE {})
        \cup {newOrders[id].status}]

\* mpsc::Sender::send completes when the buffer has room, or at once with an
\* error when the worker has stopped and dropped the receiver.
CanSend == worker = "stopped" \/ Len(channel) < ChannelCapacity

\* The channel after send(ev): the event is queued unless the receiver is
\* gone, in which case send returns Err and the callers only log it
\* (mod.rs 224-226, 246-248, 319-321).
Sent(ev) == IF worker = "stopped" THEN channel ELSE Append(channel, ev)

\* ----------------------------------------------------------------- router
\* OrderRouter::submit_order, the venue it resolves: Some(name) or None.
ResolveExchange(order) ==
    IF order.exchange # ""
    THEN Some(order.exchange)
    ELSE IF order.symbol \in DOMAIN primary_exchange_map
         THEN Some(primary_exchange_map[order.symbol])
         ELSE None

\* Result of OrderRouter::submit_order: "Ok" or the error message.
RouterSubmitResult(order) ==
    LET target == ResolveExchange(order) IN
    IF IsNone(target) THEN "No primary exchange defined"
    ELSE IF Unwrap(target) \notin DOMAIN exchanges THEN "Exchange not found"
    ELSE IF ~exchanges[Unwrap(target)].connected THEN "Not connected to exchange"
    ELSE "Ok"

\* CryptoExchange::submit_order on a connected venue: the record it inserts.
NewOrderState(order) ==
    [status |-> "Pending", filled_quantity |-> 0, quantity |-> order.quantity,
     last_update |-> now]

\* venue_orders after OrderRouter::submit_order(order).
RouterSubmitEffect(order) ==
    IF RouterSubmitResult(order) = "Ok"
    THEN LET name == Unwrap(ResolveExchange(order)) IN
         [venue_orders EXCEPT ![name] = MapPut(@, order.id, NewOrderState(order))]
    ELSE venue_orders

\* CryptoExchange::cancel_order succeeds on a connected venue that holds the order.
VenueAcceptsCancel(name, id) ==
    /\ exchanges[name].connected
    /\ id \in DOMAIN venue_orders[name]

\* OrderRouter::cancel_order: the adapters that would accept the cancel.
CancelCandidates(id) == {name \in DOMAIN exchanges : VenueAcceptsCancel(name, id)}

\* ---------------------------------------------------------- order manager
\* Mutant of validate_order: the check that a market order carries no price
\* is missing.
validate_order_no_market_check(order) ==
    IF order.symbol = "" THEN "Order symbol cannot be empty"
    ELSE IF order.quantity <= 0 THEN "Order quantity must be positive"
    ELSE IF order.order_type = "Limit" /\ IsNone(order.price)
         THEN "Limit orders must specify a price"
    ELSE IF order.order_type \in {"StopLoss", "StopLimit"} /\ IsNone(order.stop_price)
         THEN "Stop orders must specify a stop price"
    ELSE "Ok"

\* OrderManager::validate_order: "Ok" or the error message.
validate_order(order) ==
    IF order.symbol = "" THEN "Order symbol cannot be empty"
    ELSE IF order.quantity <= 0 THEN "Order quantity must be positive"
    ELSE IF order.order_type = "Limit" /\ IsNone(order.price)
         THEN "Limit orders must specify a price"
    ELSE IF order.order_type = "Market" /\ IsSome(order.price)
         THEN "Market orders should not specify a price"
    ELSE IF order.order_type \in {"StopLoss", "StopLimit"} /\ IsNone(order.stop_price)
         THEN "Stop orders must specify a stop price"
    ELSE "Ok"

\* OrderManager::update_order_status_internal: the store after the write.
update_order_status_internal(id, status) ==
    IF id \in DOMAIN orders
    THEN [orders EXCEPT ![id].status = status, ![id].updated_at = now]
    ELSE orders


\* ------------------------------------------------------------------ inputs
\* An order as a caller builds it before place_order (tests' create_test_order).
MkOrder(id, symbol, type, qty, price, stop, exchange) ==
    [id |-> id, symbol |-> symbol, order_type |-> type, quantity |-> qty,
     filled_quantity |-> 0, price |-> price, stop_price |-> stop,
     status |-> "Created", exchange |-> exchange,
     average_fill_price |-> None, notes |-> None, updated_at |-> 0]

\* Orders that pass validate_order: a limit order routed by the primary map
\* and a market order that pins its venue.
ValidInputs(id) ==
    {MkOrder(id, "BTC/USD", "Limit", 2, Some(5), None, ""),
     MkOrder(id, "BTC/USD", "Market", 2, None, None, "A")}

\* One order for each way validate_order rejects.
InvalidInputs(id) ==
    {MkOrder(id, "", "Limit", 2, Some(5), None, ""),
     MkOrder(id, "BTC/USD", "Limit", 0, Some(5), None, ""),
     MkOrder(id, "BTC/USD", "Limit", 0 - 1, Some(5), None, ""),
     MkOrder(id, "BTC/USD", "Limit", 2, None, None, ""),
     MkOrder(id, "BTC/USD", "Market", 2, Some(5), None, ""),
     MkOrder(id, "BTC/USD", "StopLoss", 2, Some(5), None, ""),
     MkOrder(id, "BTC/USD", "StopLimit", 2, Some(5), None, "")}

PlaceInputs(id) == ValidInputs(id) \cup InvalidInputs(id)

CancelReasons == {"user"}

\* Events a holder of get_event_sender() puts on the channel (venue callbacks, tests).
ExternalEvents(ids) ==
    {[type |-> "Update", order_id |-> id, status |-> Some("PartiallyFilled"),
      filled_qty |-> Some(1), avg_fill_price |-> Some(5)] : id \in ids}
    \cup {[type |-> "Update", order_id |-> id, status |-> Some("Filled"),
           filled_qty |-> Some(2), avg_fill_price |-> None] : id \in ids}
    \cup {[type |-> "Reject", order_id |-> id, reason |-> "venue"] : id \in ids}

\* Every Update event a holder of get_event_sender() can build for the ids:
\* status and filled_qty are Options (mod.rs 101-106), any status and any
\* quantity up to MaxFill.
UpdateEvents(ids) ==
    {[type |-> "Update", order_id |-> id, status |-> st, filled_qty |-> q,
      avg_fill_price |-> None] :
        id \in ids,
        st \in {None} \cup {Some(x) : x \in OrderStatus},
        q \in {None} \cup {Some(n) : n \in 0..MaxFill}}

\* ------------------------------------------------------------- place_order
\* Mutant of PlaceOrder: a nil id is kept instead of being replaced by a
\* generated one.
PlaceOrderKeepsNil(input, new_v4) ==
    /\ LET id == input.id
           order == [input EXCEPT !.id = id, !.status = "Created", !.updated_at = now]
           verdict == validate_order(order)
       IN /\ nplace' = nplace + 1
          /\ IF verdict # "Ok"
             THEN /\ place_log' = [input |-> input, verdict |-> verdict]
                  /\ UNCHANGED <<orders, active_orders, places>>
             ELSE /\ orders' = MapPut(orders, id, order)
                  /\ active_orders' = MapPut(active_orders, id, order)
                  /\ places' = Append(places, [order |-> order, supplied |-> input.id])
                  /\ UNCHANGED place_log
          /\ ever_submitted' = Observe(orders')
          /\ status_seen' = ObserveStatus(orders')
    /\ UNCHANGED <<channel, tasks, cancels, routerVars, auxVars, worker, venue_orders, nexternal>>

\* Mutant of PlaceOrder: the order is inserted into the active set only.
PlaceOrderSkipsStore(input, new_v4) ==
    /\ LET id == IF input.id = Nil THEN new_v4 ELSE input.id
           order == [input EXCEPT !.id = id, !.status = "Created", !.updated_at = now]
           verdict == validate_order(order)
       IN /\ nplace' = nplace + 1
          /\ IF verdict # "Ok"
             THEN /\ place_log' = [input |-> input, verdict |-> verdict]
                  /\ UNCHANGED <<active_orders, places>>
             ELSE /\ active_orders' = MapPut(active_orders, id, order)
                  /\ places' = Append(places, [order |-> order, supplied |-> input.id])
                  /\ UNCHANGED place_log
    /\ UNCHANGED <<orders, ever_submitted, status_seen>>
    /\ UNCHANGED <<channel, tasks, cancels, routerVars, auxVars, worker, venue_orders, nexternal>>

\* place_order up to the end of its store section (mod.rs 170-193): assign an
\* id, force Created, validate, insert into both maps.
PlaceOrder(input, new_v4) ==
    /\ LET id == IF input.id = Nil THEN new_v4 ELSE input.id
           order == [input EXCEPT !.id = id, !.status = "Created", !.updated_at = now]
           verdict == validate_order(order)
       IN /\ nplace' = nplace + 1
          /\ IF verdict # "Ok"
             THEN /\ place_log' = [input |-> input, verdict |-> verdict]
                  /\ UNCHANGED <<orders, active_orders, places>>
             ELSE /\ orders' = MapPut(orders, id, order)
                  /\ active_orders' = MapPut(active_orders, id, order)
                  /\ places' = Append(places, [order |-> order, supplied |-> input.id])
                  /\ UNCHANGED place_log
          /\ ever_submitted' = Observe(orders')
          /\ status_seen' = ObserveStatus(orders')
    /\ UNCHANGED <<channel, tasks, cancels, routerVars, auxVars, worker, venue_orders, nexternal>>

\* place_order from the New event to its return (mod.rs 195-254): emit New,
\* spawn the submission task, return the id.
PlaceEmit ==
    /\ places # <<>>
    /\ \E i \in 1..Len(places) :
        LET order == places[i].order IN
        /\ CanSend
        /\ channel' = Sent([type |-> "New", order |-> order])
        /\ tasks' = Append(tasks, [order |-> order, pc |-> "start", error |-> ""])
        /\ places' = SubSeq(places, 1, i - 1) \o SubSeq(places, i + 1, Len(places))
    /\ UNCHANGED <<orders, active_orders, cancels, place_log, nplace, routerVars, auxVars, worker,
                   venue_orders, nexternal, ever_submitted, status_seen>>

\* --------------------------------------------------------- submission task
TaskAt(t, pc) == t \in 1..Len(tasks) /\ tasks[t].pc = pc
TaskGoto(t, pc) == tasks' = [tasks EXCEPT ![t].pc = pc]

\* mod.rs 208: update_order_status_internal(.., PendingSubmission).
SubmitPending(t) ==
    /\ TaskAt(t, "start")
    /\ orders' = update_order_status_internal(tasks[t].order.id, "PendingSubmission")
    /\ TaskGoto(t, "submit")
    /\ ever_submitted' = Observe(orders')
    /\ status_seen' = ObserveStatus(orders')
    /\ UNCHANGED <<active_orders, channel, places, cancels, place_log, nplace,
                   routerVars, auxVars, worker, venue_orders, nexternal>>

\* mod.rs 211: order_router.submit_order(order).await, from call to result.
SubmitRoute(t) ==
    /\ TaskAt(t, "submit")
    /\ LET res == RouterSubmitResult(tasks[t].order) IN
        /\ venue_orders' = RouterSubmitEffect(tasks[t].order)
        /\ tasks' = [tasks EXCEPT ![t].pc = IF res = "Ok" THEN "ok_write" ELSE "err_write",
                                  ![t].error = IF res = "Ok" THEN "" ELSE res]
    /\ UNCHANGED <<orders, active_orders, channel, places, cancels, place_log, nplace,
                   routerVars, auxVars, worker, nexternal, ever_submitted, status_seen>>

\* Mutant of SubmitOkWrite: the task does not write Submitted.
SubmitOkWriteSkips(t) ==
    /\ TaskAt(t, "ok_write")
    /\ TaskGoto(t, "ok_send")
    /\ UNCHANGED <<orders, active_orders, channel, places, cancels, place_log, nplace,
                   routerVars, auxVars, worker, venue_orders, nexternal, ever_submitted, status_seen>>

\* mod.rs 214: update_order_status_internal(.., Submitted).
SubmitOkWrite(t) ==
    /\ TaskAt(t, "ok_write")
    /\ orders' = update_order_status_internal(tasks[t].order.id, "Submitted")
    /\ TaskGoto(t, "ok_send")
    /\ ever_submitted' = Observe(orders')
    /\ status_seen' = ObserveStatus(orders')
    /\ UNCHANGED <<active_orders, channel, places, cancels, place_log, nplace,
                   routerVars, auxVars, worker, venue_orders, nexternal>>

\* mod.rs 217-226: send Update { status: Some(Submitted) }.
SubmitOkSend(t) ==
    /\ TaskAt(t, "ok_send")
    /\ CanSend
    /\ channel' = Sent([type |-> "Update", order_id |-> tasks[t].order.id,
                                   status |-> Some("Submitted"), filled_qty |-> None,
                                   avg_fill_price |-> None])
    /\ TaskGoto(t, "done")
    /\ UNCHANGED <<orders, active_orders, places, cancels, place_log, nplace,
                   routerVars, auxVars, worker, venue_orders, nexternal, ever_submitted, status_seen>>

\* mod.rs 232: update_order_status_internal(.., Failed).
SubmitErrWrite(t) ==
    /\ TaskAt(t, "err_write")
    /\ orders' = update_order_status_internal(tasks[t].order.id, "Failed")
    /\ TaskGoto(t, "err_remove")
    /\ ever_submitted' = Observe(orders')
    /\ status_seen' = ObserveStatus(orders')
    /\ UNCHANGED <<active_orders, channel, places, cancels, place_log, nplace,
                   routerVars, auxVars, worker, venue_orders, nexternal>>

\* Mutant of SubmitErrRemove: the failed order is left in the active set.
SubmitErrRemoveKeeps(t) ==
    /\ TaskAt(t, "err_remove")
    /\ TaskGoto(t, "err_send")
    /\ UNCHANGED <<orders, active_orders, channel, places, cancels, place_log, nplace,
                   routerVars, auxVars, worker, venue_orders, nexternal, ever_submitted, status_seen>>

\* mod.rs 235-238: active.remove(&order_id).
SubmitErrRemove(t) ==
    /\ TaskAt(t, "err_remove")
    /\ active_orders' = MapRemove(active_orders, tasks[t].order.id)
    /\ TaskGoto(t, "err_send")
    /\ UNCHANGED <<orders, channel, places, cancels, place_log, nplace,
                   routerVars, auxVars, worker, venue_orders, nexternal, ever_submitted, status_seen>>

\* mod.rs 241-248: send Error { order_id: Some(id), message }.
SubmitErrSend(t) ==
    /\ TaskAt(t, "err_send")
    /\ CanSend
    /\ channel' = Sent([type |-> "Error", order_id |-> Some(tasks[t].order.id),
                                   message |-> tasks[t].error])
    /\ TaskGoto(t, "done")
    /\ UNCHANGED <<orders, active_orders, places, cancels, place_log, nplace,
                   routerVars, auxVars, worker, venue_orders, nexternal, ever_submitted, status_seen>>


\* ------------------------------------------------------------ cancel_order
CancelAt(c, pc) == c \in 1..Len(cancels) /\ cancels[c].pc = pc

\* Statuses cancel_order accepts (mod.rs 273).
Cancellable == {"Created", "Submitted", "PartiallyFilled"}

\* Is a submission of the order in flight: stored status PendingSubmission and
\* the router's submit not yet resolved.
InFlight(id) ==
    /\ id \in DOMAIN orders
    /\ orders[id].status = "PendingSubmission"
    /\ \E t \in 1..Len(tasks) : tasks[t].order.id = id /\ tasks[t].pc = "submit"

\* The call record: the order id and reason, where the call stands, the
\* active-set copy's status it read, its result, and what held when it began
\* (after_ok: an earlier cancel of the id had returned Ok; in_flight: the
\* submission was in flight; open: the order was active with stored status
\* Submitted or PartiallyFilled).
NewCancel(id, reason, seen, pc, result) ==
    [order_id |-> id, reason |-> reason, pc |-> pc, seen |-> seen, result |-> result,
     emitted |-> FALSE, router_called |-> FALSE,
     after_ok |-> \E k \in 1..Len(cancels) :
                     cancels[k].order_id = id /\ cancels[k].result = "Ok",
     in_flight |-> InFlight(id),
     open |-> id \in DOMAIN active_orders /\ id \in DOMAIN orders
              /\ orders[id].status \in {"Submitted", "PartiallyFilled"}]

\* Mutant of CancelBegin: the status is written before the order is looked up
\* in the active set.
CancelBeginWritesFirst(id, reason) ==
    /\ orders' = update_order_status_internal(id, "Cancelled")
    /\ IF id \notin DOMAIN active_orders
       THEN cancels' = Append(cancels, NewCancel(id, reason, "", "done", "Err"))
       ELSE cancels' = Append(cancels, NewCancel(id, reason, active_orders[id].status, "remove", "Pending"))
    /\ ever_submitted' = Observe(orders')
    /\ status_seen' = ObserveStatus(orders')
    /\ UNCHANGED <<active_orders, channel, tasks, places, place_log, nplace,
                   routerVars, auxVars, worker, venue_orders, nexternal>>

\* cancel_order, the read of the active set and the status check (mod.rs 264-273,
\* 301, 304): an unknown, inactive or uncancellable order is an error.
CancelBegin(id, reason) ==
    /\ IF id \notin DOMAIN active_orders
       THEN cancels' = Append(cancels, NewCancel(id, reason, "", "done", "Err"))
       ELSE IF active_orders[id].status \notin Cancellable
       THEN cancels' = Append(cancels, NewCancel(id, reason, active_orders[id].status, "done", "Err"))
       ELSE cancels' = Append(cancels, NewCancel(id, reason, active_orders[id].status, "apply", "Pending"))
    /\ UNCHANGED <<orders, active_orders, channel, tasks, places, place_log, nplace,
                   routerVars, auxVars, worker, venue_orders, nexternal, ever_submitted, status_seen>>

\* mod.rs 275-285: a Created order is cancelled locally; otherwise the router is
\* asked (OrderRouter::cancel_order, router.rs 72-94: the first adapter of the
\* registry's iteration that accepts marks its record Cancelled) and only when
\* it fails is the stored status written.
CancelApply(c) ==
    /\ CancelAt(c, "apply")
    /\ LET id == cancels[c].order_id IN
       IF cancels[c].seen = "Created"
       THEN /\ orders' = update_order_status_internal(id, "Cancelled")
            /\ cancels' = [cancels EXCEPT ![c].pc = "remove"]
            /\ UNCHANGED venue_orders
       ELSE /\ cancels' = [cancels EXCEPT ![c].pc = "remove", ![c].router_called = TRUE]
            /\ IF CancelCandidates(id) = {}
               THEN /\ orders' = update_order_status_internal(id, "Cancelled")
                    /\ UNCHANGED venue_orders
               ELSE /\ \E name \in CancelCandidates(id) :
                         venue_orders' = [venue_orders EXCEPT ![name][id].status = "Cancelled",
                                                             ![name][id].last_update = now]
                    /\ UNCHANGED orders
    /\ ever_submitted' = Observe(orders')
    /\ status_seen' = ObserveStatus(orders')
    /\ UNCHANGED <<active_orders, channel, tasks, places, place_log, nplace,
                   routerVars, auxVars, worker, nexternal>>

\* Mutant of CancelRemove: the order is left in the active set.
CancelRemoveKeeps(c) ==
    /\ CancelAt(c, "remove")
    /\ cancels' = [cancels EXCEPT ![c].pc = "emit"]
    /\ UNCHANGED <<orders, active_orders, channel, tasks, places, place_log, nplace,
                   routerVars, auxVars, worker, venue_orders, nexternal, ever_submitted, status_seen>>

\* mod.rs 288-291: active_orders.remove(&order_id).
CancelRemove(c) ==
    /\ CancelAt(c, "remove")
    /\ active_orders' = MapRemove(active_orders, cancels[c].order_id)
    /\ cancels' = [cancels EXCEPT ![c].pc = "emit"]
    /\ UNCHANGED <<orders, channel, tasks, places, place_log, nplace,
                   routerVars, auxVars, worker, venue_orders, nexternal, ever_submitted, status_seen>>

\* mod.rs 294-299: emit Cancel { order_id, reason } and return Ok.
CancelEmit(c) ==
    /\ CancelAt(c, "emit")
    /\ CanSend
    /\ channel' = Sent([type |-> "Cancel", order_id |-> cancels[c].order_id,
                                   reason |-> cancels[c].reason])
    /\ cancels' = [cancels EXCEPT ![c].pc = "done", ![c].result = "Ok", ![c].emitted = TRUE]
    /\ UNCHANGED <<orders, active_orders, tasks, places, place_log, nplace,
                   routerVars, auxVars, worker, venue_orders, nexternal, ever_submitted, status_seen>>

\* ------------------------------------------------------- pipeline worker
\* The terminal statuses on which an Update event removes the order from the
\* active set (mod.rs 383-385).
UpdateRemoves == {"Filled", "Cancelled", "Rejected"}

\* Mutant of ApplyUpdate: a quantity absent from the event resets the
\* order's filled quantity.
ApplyUpdateResets(order, ev) ==
    [order EXCEPT
        !.status = IF IsSome(ev.status) THEN Unwrap(ev.status) ELSE @,
        !.filled_quantity = IF IsSome(ev.filled_qty) THEN Unwrap(ev.filled_qty) ELSE 0,
        !.average_fill_price = IF IsSome(ev.avg_fill_price) THEN Some(Unwrap(ev.avg_fill_price)) ELSE @,
        !.updated_at = now]

\* process_order_event, Update arm (mod.rs 361-392): the order after the event.
ApplyUpdate(order, ev) ==
    [order EXCEPT
        !.status = IF IsSome(ev.status) THEN Unwrap(ev.status) ELSE @,
        !.filled_quantity = IF IsSome(ev.filled_qty) THEN Unwrap(ev.filled_qty) ELSE @,
        !.average_fill_price = IF IsSome(ev.avg_fill_price) THEN Some(Unwrap(ev.avg_fill_price)) ELSE @,
        !.updated_at = now]

\* Mutant of ApplyForced: an order in a terminal status is left as it is.
ApplyForcedUnlessTerminal(order, status, text) ==
    IF order.status \in TerminalStatus
    THEN order
    ELSE [order EXCEPT !.status = status, !.notes = Some(text), !.updated_at = now]

\* Cancel, Reject and Error arms (mod.rs 397-444): forced status and notes.
ApplyForced(order, status, text) ==
    [order EXCEPT !.status = status, !.notes = Some(text), !.updated_at = now]

\* Mutant of OrdersAfter: a Cancel event deletes the order from the store.
OrdersAfterForgets(ev) ==
    IF ev.type = "Update" /\ ev.order_id \in DOMAIN orders
        THEN [orders EXCEPT ![ev.order_id] = ApplyUpdate(@, ev)]
    ELSE IF ev.type = "Cancel" /\ ev.order_id \in DOMAIN orders
        THEN MapRemove(orders, ev.order_id)
    ELSE IF ev.type = "Reject" /\ ev.order_id \in DOMAIN orders
        THEN [orders EXCEPT ![ev.order_id] = ApplyForced(@, "Rejected", ev.reason)]
    ELSE IF ev.type = "Error" /\ IsSome(ev.order_id) /\ Unwrap(ev.order_id) \in DOMAIN orders
        THEN [orders EXCEPT ![Unwrap(ev.order_id)] = ApplyForced(@, "Failed", ev.message)]
    ELSE orders

\* Mutant of OrdersAfter: a New event stores the order it carries.
OrdersAfterAdopts(ev) ==
    IF ev.type = "New" THEN MapPut(orders, ev.order.id, ev.order)
    ELSE IF ev.type = "Update" /\ ev.order_id \in DOMAIN orders
        THEN [orders EXCEPT ![ev.order_id] = ApplyUpdate(@, ev)]
    ELSE IF ev.type = "Cancel" /\ ev.order_id \in DOMAIN orders
        THEN [orders EXCEPT ![ev.order_id] = ApplyForced(@, "Cancelled", ev.reason)]
    ELSE IF ev.type = "Reject" /\ ev.order_id \in DOMAIN orders
        THEN [orders EXCEPT ![ev.order_id] = ApplyForced(@, "Rejected", ev.reason)]
    ELSE IF ev.type = "Error" /\ IsSome(ev.order_id) /\ Unwrap(ev.order_id) \in DOMAIN orders
        THEN [orders EXCEPT ![Unwrap(ev.order_id)] = ApplyForced(@, "Failed", ev.message)]
    ELSE orders

\* process_order_event: the store after the event.
OrdersAfter(ev) ==
    IF ev.type = "Update" /\ ev.order_id \in DOMAIN orders
        THEN [orders EXCEPT ![ev.order_id] = ApplyUpdate(@, ev)]
    ELSE IF ev.type = "Cancel" /\ ev.order_id \in DOMAIN orders
        THEN [orders EXCEPT ![ev.order_id] = ApplyForced(@, "Cancelled", ev.reason)]
    ELSE IF ev.type = "Reject" /\ ev.order_id \in DOMAIN orders
        THEN [orders EXCEPT ![ev.order_id] = ApplyForced(@, "Rejected", ev.reason)]
    ELSE IF ev.type = "Error" /\ IsSome(ev.order_id) /\ Unwrap(ev.order_id) \in DOMAIN orders
        THEN [orders EXCEPT ![Unwrap(ev.order_id)] = ApplyForced(@, "Failed", ev.message)]
    ELSE orders

\* process_order_event: the active set after the event.
ActiveAfter(ev) ==
    IF ev.type = "Update" /\ ev.order_id \in DOMAIN orders
        THEN IF OrdersAfter(ev)[ev.order_id].status \in UpdateRemoves
             THEN MapRemove(active_orders, ev.order_id)
             ELSE active_orders
    ELSE IF ev.type \in {"Cancel", "Reject"} /\ ev.order_id \in DOMAIN orders
        THEN MapRemove(active_orders, ev.order_id)
    ELSE IF ev.type = "Error" /\ IsSome(ev.order_id) /\ Unwrap(ev.order_id) \in DOMAIN orders
        THEN MapRemove(active_orders, Unwrap(ev.order_id))
    ELSE active_orders

\* The worker's loop body (mod.rs 149-162): receive the oldest event, apply it.
ProcessEvent ==
    /\ worker # "stopped"
    /\ channel # <<>>
    /\ orders' = OrdersAfter(Head(channel))
    /\ active_orders' = ActiveAfter(Head(channel))
    /\ channel' = Tail(channel)
    /\ ever_submitted' = Observe(orders')
    /\ status_seen' = ObserveStatus(orders')
    /\ worker' = IF Tail(channel) = <<>> THEN "idle" ELSE "busy"
    /\ UNCHANGED <<tasks, places, cancels, place_log, nplace, routerVars, auxVars, venue_orders, nexternal>>

\* The worker's other select! branch (mod.rs 157-160): sleep(3600 s) is created
\* anew at each turn of the loop, so it can only elapse in a turn that began
\* with the channel empty ("idle").  select! polls its ready branches in
\* random order, so the branch may win although an event arrived meanwhile.
\* The loop breaks, the receiver is dropped with whatever it holds.
WorkerTimeout ==
    /\ worker = "idle"
    /\ worker' = "stopped"
    /\ channel' = <<>>
    /\ UNCHANGED <<orders, active_orders, tasks, places, cancels, place_log, nplace,
                   routerVars, auxVars, venue_orders, nexternal, ever_submitted, status_seen>>

\* ------------------------------------------- other holders of the manager
\* A holder of get_event_sender() (mod.rs 449-451) sends an event.
SendEvent(ev) ==
    /\ CanSend
    /\ nexternal' = nexternal + 1
    /\ channel' = Sent(ev)
    /\ UNCHANGED <<orders, active_orders, tasks, places, cancels, place_log, nplace,
                   routerVars, auxVars, worker, venue_orders, ever_submitted, status_seen>>

\* update_order_status (mod.rs 258-260).
UpdateOrderStatus(id, status) ==
    /\ nexternal' = nexternal + 1
    /\ orders' = update_order_status_internal(id, status)
    /\ ever_submitted' = Observe(orders')
    /\ status_seen' = ObserveStatus(orders')
    /\ UNCHANGED <<active_orders, channel, tasks, places, cancels, place_log, nplace,
                   routerVars, auxVars, worker, venue_orders>>

\* ------------------------------------------------------ router operations
\* OrderRouter::register_exchange (router.rs 28-39): the registry keeps the
\* adapter as it was when registered; a second adapter of the name is refused.
RegisterExchange(name, connected) ==
    /\ exchanges' = IF name \in DOMAIN exchanges
                    THEN exchanges
                    ELSE MapPut(exchanges, name, [connected |-> connected, nth |-> Cardinality(DOMAIN exchanges) + 1])
    /\ exchanges' # exchanges
    /\ UNCHANGED <<managerVars, auxVars, primary_exchange_map, venue_orders, nexternal,
                   ever_submitted, status_seen, worker>>

\* OrderRouter::set_primary_exchange (router.rs 41-47).
SetPrimaryExchange(asset, exchange) ==
    /\ primary_exchange_map' = MapPut(primary_exchange_map, asset, exchange)
    /\ primary_exchange_map' # primary_exchange_map
    /\ UNCHANGED <<managerVars, auxVars, exchanges, venue_orders, nexternal,
                   ever_submitted, status_seen, worker>>

\* ------------------------------------------------------------ specification
\* OrderManager::new (mod.rs 126-168).
InitManager ==
    /\ orders = EmptyMap
    /\ active_orders = EmptyMap
    /\ channel = <<>>
    /\ tasks = <<>>
    /\ places = <<>>
    /\ cancels = <<>>
    /\ place_log = [input |-> None, verdict |-> ""]
    /\ nplace = 0
    /\ nexternal = 0
    /\ ever_submitted = {}
    /\ status_seen = EmptyMap
    /\ worker = "idle"

\* OrderRouter::new (router.rs 20-25) and CryptoExchange::new (crypto.rs 67-74).
InitRouter ==
    /\ exchanges = EmptyMap
    /\ primary_exchange_map = EmptyMap
    /\ venue_orders = [name \in Venues |-> EmptyMap]
    /\ adapters = EmptyMap
    /\ call = NoCall
    /\ now = 0

\* Nobody is inside a section of the manager's locks.
InitLocks ==
    /\ lock_threads = EmptyMap
    /\ locks = NoLocks

Init == InitManager /\ InitRouter /\ InitLocks

\* Ids no stored order has.
FreshIds == OrderIds \ DOMAIN orders

\* Uuid::new_v4 (mod.rs 173, and the callers that build their own ids): a Uuid
\* is only ever compared for equality, so the least unused id stands for the draw.
NewUuids == {id \in FreshIds : \A other \in FreshIds : id <= other}

\* Ids a caller names: a stored order's, or while nothing is stored an id the
\* manager has not seen.
TargetIds == IF DOMAIN orders = {} THEN NewUuids ELSE DOMAIN orders

\* The router is configured before the first order is placed (main and the
\* tests build their venues first).
Setup == nplace = 0

Next ==
    \/ /\ nplace < MaxPlace
       /\ \E new_v4 \in NewUuids :
            \E id \in {Nil, new_v4} :
              \E input \in PlaceInputs(id) : PlaceOrder(input, new_v4)
    \/ PlaceEmit
    \/ \E t \in 1..Len(tasks) : SubmitPending(t)
    \/ \E t \in 1..Len(tasks) : SubmitRoute(t)
    \/ \E t \in 1..Len(tasks) : SubmitOkWrite(t)
    \/ \E t \in 1..Len(tasks) : SubmitOkSend(t)
    \/ \E t \in 1..Len(tasks) : SubmitErrWrite(t)
    \/ \E t \in 1..Len(tasks) : SubmitErrRemove(t)
    \/ \E t \in 1..Len(tasks) : SubmitErrSend(t)
    \/ /\ Len(cancels) < MaxCancel
       /\ \E id \in TargetIds, reason \in CancelReasons : CancelBegin(id, reason)
    \/ \E c \in 1..Len(cancels) : CancelApply(c)
    \/ \E c \in 1..Len(cancels) : CancelRemove(c)
    \/ \E c \in 1..Len(cancels) : CancelEmit(c)
    \/ ProcessEvent
    \/ WorkerTimeout
    \/ /\ nexternal < MaxExternal
       /\ \E ev \in ExternalEvents(TargetIds) : SendEvent(ev)
    \/ /\ nexternal < MaxExternal
       /\ \E id \in TargetIds, status \in OrderStatus : UpdateOrderStatus(id, status)
    \/ /\ Setup
       /\ \E name \in Venues, connected \in BOOLEAN : RegisterExchange(name, connected)
    \/ /\ Setup
       /\ \E asset \in Symbols, exchange \in Venues : SetPrimaryExchange(asset, exchange)

Spec == Init /\ [][Next]_vars

\* --------------------------------------------- orders no venue can take
\* Callers place valid orders and nobody cancels or sends events; the router
\* has no connected venue (nothing registered, or only adapters that are not
\* connected), so every submission takes the Err arm of mod.rs 228-249.
FailNext ==
    \/ /\ nplace < MaxOrders
       /\ \E new_v4 \in NewUuids :
            \E id \in {Nil, new_v4} :
              \E input \in ValidInputs(id) : PlaceOrder(input, new_v4)
    \/ PlaceEmit
    \/ \E t \in 1..Len(tasks) : SubmitPending(t)
    \/ \E t \in 1..Len(tasks) : SubmitRoute(t)
    \/ \E t \in 1..Len(tasks) : SubmitErrWrite(t)
    \/ \E t \in 1..Len(tasks) : SubmitErrRemove(t)
    \/ \E t \in 1..Len(tasks) : SubmitErrSend(t)
    \/ ProcessEvent
    \/ WorkerTimeout
    \/ /\ Setup
       /\ \E name \in Venues : RegisterExchange(name, FALSE)
    \/ /\ Setup
       /\ \E asset \in Symbols, exchange \in Venues : SetPrimaryExchange(asset, exchange)

\* The tokio runtime keeps polling the caller's place_order future, the
\* spawned submission tasks and the worker: a step of theirs that stays
\* possible is eventually taken.
FailProgress ==
    \/ PlaceEmit
    \/ \E t \in 1..Len(tasks) :
          \/ SubmitPending(t) \/ SubmitRoute(t) \/ SubmitErrWrite(t)
          \/ SubmitErrRemove(t) \/ SubmitErrSend(t)
    \/ ProcessEvent

SpecFail == Init /\ [][FailNext]_vars /\ WF_vars(FailProgress)

\* ------------------------------------------------ callers that reuse an id
\* place_order takes the caller's id as it is (mod.rs 172-174): here, once an
\* order is stored, callers place orders under its id again.  The manager
\* reaches no venue.
ReuseNext ==
    \/ /\ nplace < MaxReplace
       /\ \E new_v4 \in NewUuids :
            \E id \in (IF DOMAIN orders = {} THEN {Nil, new_v4} ELSE DOMAIN orders) :
              \E input \in ValidInputs(id) : PlaceOrder(input, new_v4)
    \/ PlaceEmit
    \/ \E t \in 1..Len(tasks) : SubmitPending(t)
    \/ \E t \in 1..Len(tasks) : SubmitRoute(t)
    \/ \E t \in 1..Len(tasks) : SubmitErrWrite(t)
    \/ \E t \in 1..Len(tasks) : SubmitErrRemove(t)
    \/ \E t \in 1..Len(tasks) : SubmitErrSend(t)
    \/ /\ Len(cancels) < MaxCancel
       /\ \E id \in TargetIds, reason \in CancelReasons : CancelBegin(id, reason)
    \/ \E c \in 1..Len(cancels) : CancelApply(c)
    \/ \E c \in 1..Len(cancels) : CancelRemove(c)
    \/ \E c \in 1..Len(cancels) : CancelEmit(c)
    \/ ProcessEvent
    \/ WorkerTimeout

SpecReuse == Init /\ [][ReuseNext]_vars

\* ------------------------------------------------- a stream of Update events
\* An order is placed on a manager that reaches no venue while venue callbacks
\* send Update events of every shape.
EventsNext ==
    \/ /\ nplace < MaxPlace
       /\ \E new_v4 \in NewUuids :
            \E id \in {Nil, new_v4} :
              \E input \in ValidInputs(id) : PlaceOrder(input, new_v4)
    \/ PlaceEmit
    \/ \E t \in 1..Len(tasks) : SubmitPending(t)
    \/ \E t \in 1..Len(tasks) : SubmitRoute(t)
    \/ \E t \in 1..Len(tasks) : SubmitErrWrite(t)
    \/ \E t \in 1..Len(tasks) : SubmitErrRemove(t)
    \/ \E t \in 1..Len(tasks) : SubmitErrSend(t)
    \/ ProcessEvent
    \/ WorkerTimeout
    \/ /\ nexternal < MaxUpdates
       /\ \E ev \in UpdateEvents(TargetIds) : SendEvent(ev)

SpecEvents == Init /\ [][EventsNext]_vars

\* ------------------------------------------- orders a venue is ready to take
\* Every symbol has a primary venue that is registered and connected.
VenueReady ==
    \A asset \in Symbols :
        /\ asset \in DOMAIN primary_exchange_map
        /\ primary_exchange_map[asset] \in DOMAIN exchanges
        /\ exchanges[primary_exchange_map[asset]].connected

\* Connected venues are registered and made primary, then orders are placed:
\* every submission takes the Ok arm of mod.rs 212-227.  Callers cancel and
\* venue callbacks send events meanwhile.
VenueNext ==
    \/ /\ Setup
       /\ \E name \in Venues : RegisterExchange(name, TRUE)
    \/ /\ Setup
       /\ \E asset \in Symbols, exchange \in Venues : SetPrimaryExchange(asset, exchange)
    \/ /\ VenueReady
       /\ nplace < MaxPlace
       /\ \E new_v4 \in NewUuids :
            \E id \in {Nil, new_v4} :
              \E input \in ValidInputs(id) : PlaceOrder(input, new_v4)
    \/ PlaceEmit
    \/ \E t \in 1..Len(tasks) : SubmitPending(t)
    \/ \E t \in 1..Len(tasks) : SubmitRoute(t)
    \/ \E t \in 1..Len(tasks) : SubmitOkWrite(t)
    \/ \E t \in 1..Len(tasks) : SubmitOkSend(t)
    \/ /\ Len(cancels) < MaxCancel
       /\ \E id \in TargetIds, reason \in CancelReasons : CancelBegin(id, reason)
    \/ \E c \in 1..Len(cancels) : CancelApply(c)
    \/ \E c \in 1..Len(cancels) : CancelRemove(c)
    \/ \E c \in 1..Len(cancels) : CancelEmit(c)
    \/ ProcessEvent
    \/ WorkerTimeout
    \/ /\ nexternal < MaxExternal
       /\ \E ev \in ExternalEvents(TargetIds) : SendEvent(ev)

\* The runtime keeps polling the place_order future and the submission tasks.
VenueProgress ==
    \/ PlaceEmit
    \/ \E t \in 1..Len(tasks) :
          SubmitPending(t) \/ SubmitRoute(t) \/ SubmitOkWrite(t) \/ SubmitOkSend(t)

SpecVenue == Init /\ [][VenueNext]_vars /\ WF_vars(VenueProgress)


\* ------------------------------------------------------------------ claims
\* The worker runs and nothing is in progress: no event queued, every place_order and cancel_order
\* call returned, every submission task finished.
Quiescent ==
    /\ worker # "stopped"
    /\ channel = <<>>
    /\ places = <<>>
    /\ \A t \in 1..Len(tasks) : tasks[t].pc = "done"
    /\ \A c \in 1..Len(cancels) : cancels[c].pc = "done"

\* The step is the pipeline worker applying the oldest event.
WorkerStep == channel # <<>> /\ channel' = Tail(channel) /\ worker' # "stopped"

\* C1: once the stored status of an order is Filled, Cancelled, Rejected or
\* Failed, no step changes it to a different value.
C1_TerminalStatusFinal ==
    [][\A id \in DOMAIN orders :
          orders[id].status \in TerminalStatus => orders'[id].status = orders[id].status]_vars

\* C2: every status change applied to a stored order is a pair allowed by
\* can_transition_to (the table of 4.1, self-transitions included).
C2_AppliedTransitionsAllowed ==
    [][\A id \in DOMAIN orders :
          can_transition_to(orders[id].status, orders'[id].status)]_vars

\* C3: when the worker applies an event that makes an order's stored status
\* PartiallyFilled or Filled, the stored status of that order has been
\* Submitted in an earlier state.
C3_FilledAfterSubmitted ==
    [][WorkerStep =>
          \A id \in DOMAIN orders :
             (/\ orders'[id].status \in {"PartiallyFilled", "Filled"}
              /\ orders[id].status \notin {"PartiallyFilled", "Filled"})
             => id \in ever_submitted]_vars

\* The orders C4 names: empty symbol, quantity <= 0, Limit without price,
\* Market with price, StopLoss/StopLimit without stop price.
C4_Invalid(order) ==
    \/ order.symbol = ""
    \/ order.quantity <= 0
    \/ order.order_type = "Limit" /\ order.price = None
    \/ order.order_type = "Market" /\ order.price # None
    \/ order.order_type \in {"StopLoss", "StopLimit"} /\ order.stop_price = None

\* C4: a place_order call either returns an error and leaves the store, the
\* active set, the channel and the tasks as they were, or it accepts an order
\* that is none of the invalid kinds; so an invalid order is always refused
\* without any mutation.
C4_InvalidOrderRefused ==
    [][nplace' = nplace + 1 =>
          IF Len(places') > Len(places)
          THEN ~C4_Invalid(places'[Len(places')].order)
          ELSE /\ place_log'.verdict # "Ok"
               /\ C4_Invalid(place_log'.input)
               /\ UNCHANGED <<orders, active_orders, channel, tasks>>]_vars

\* C4 witness: an invalid order was refused and nothing is stored.
C4_Witness ==
    /\ nplace > 0
    /\ place_log.verdict = "Market orders should not specify a price"
    /\ C4_Invalid(place_log.input)
    /\ orders = EmptyMap /\ active_orders = EmptyMap /\ channel = <<>> /\ tasks = <<>>

\* C5: while only the submission task and the worker run beside it, an order
\* whose cancel_order returned Ok is out of the active set and stored Cancelled.
C5_CancelledAfterCancel ==
    nexternal = 0 =>
        \A c \in 1..Len(cancels) :
            cancels[c].result = "Ok" =>
                /\ cancels[c].order_id \notin DOMAIN active_orders
                /\ orders[cancels[c].order_id].status = "Cancelled"

\* C6: once everything has been processed, the notes of an order whose
\* cancel_order returned Ok are the reason given to that call.
C6_NotesAreReason ==
    (Quiescent /\ nexternal = 0) =>
        \A c \in 1..Len(cancels) :
            cancels[c].result = "Ok" =>
                orders[cancels[c].order_id].notes = Some(cancels[c].reason)

\* C7: a cancel_order call that begins while the order's submission is in
\* flight does not return Ok.
C7_InFlightCancelRejected ==
    \A c \in 1..Len(cancels) : cancels[c].in_flight => cancels[c].result # "Ok"

\* C8: a cancel_order call made after a cancel_order of the same id returned
\* Ok returns an error and emits no Cancel event.
C8_SecondCancelFails ==
    \A c \in 1..Len(cancels) :
        cancels[c].after_ok =>
            /\ cancels[c].result = "Err"
            /\ cancels[c].pc = "done"
            /\ ~cancels[c].emitted

\* C8 witness: a second cancel was made after the first returned Ok.
C8_Witness ==
    \E c \in 1..Len(cancels) : cancels[c].after_ok /\ cancels[c].result = "Err"

\* C9: a cancel_order call that returns an error returns it in its first step,
\* with the store, the active set, the channel and the venues' records
\* unchanged, without a router call and without an event.
C9_CancelErrorNoEffect ==
    [][\A c \in 1..Len(cancels') :
          cancels'[c].result = "Err" =>
             /\ ~cancels'[c].router_called
             /\ ~cancels'[c].emitted
             /\ c > Len(cancels) =>
                  UNCHANGED <<orders, active_orders, channel, venue_orders, tasks>>
             /\ c <= Len(cancels) => cancels[c].result = "Err"]_vars

\* C9 witness: cancel_order returned an error for an order that is stored but
\* no longer active.
C9_Witness ==
    \E c \in 1..Len(cancels) :
        /\ cancels[c].result = "Err"
        /\ cancels[c].order_id \in DOMAIN orders
        /\ cancels[c].order_id \notin DOMAIN active_orders

\* C10: once everything has been processed, a cancel_order call that began on
\* an active order stored as Submitted or PartiallyFilled has returned Ok and
\* the order is stored Cancelled and out of the active set.
C10_OpenOrderEndsCancelled ==
    Quiescent =>
        \A c \in 1..Len(cancels) :
            cancels[c].open =>
                /\ cancels[c].result = "Ok"
                /\ cancels[c].order_id \notin DOMAIN active_orders
                /\ orders[cancels[c].order_id].status = "Cancelled"

\* C11: with no venue able to take the orders and nobody cancelling, every
\* accepted order ends, and stays, stored with status Failed and out of the
\* active set, and the active set ends empty.
C11_FailedOrdersRollBack ==
    /\ \A id \in OrderIds :
          [](id \in DOMAIN orders =>
                <>[](/\ id \in DOMAIN orders
                     /\ orders[id].status = "Failed"
                     /\ id \notin DOMAIN active_orders))
    /\ <>[](active_orders = EmptyMap)

\* C11 witness: every order the bound allows was accepted, all are stored as Failed and the
\* active set is empty.
C11_Witness ==
    /\ Cardinality(DOMAIN orders) = MaxOrders
    /\ \A id \in DOMAIN orders : orders[id].status = "Failed"
    /\ active_orders = EmptyMap
    /\ \A t \in 1..Len(tasks) : tasks[t].pc = "done"

C13_ReturnsIdBeforeSubmit ==
    [][Len(tasks') > Len(tasks) =>
          \E i \in 1..Len(places) :
             LET returned == tasks'[Len(tasks')].order.id IN
             /\ returned = places[i].order.id
             /\ returned # Nil
             /\ returned \in DOMAIN orders
             /\ places[i].supplied # Nil => returned = places[i].supplied
             /\ Len(places') = Len(places) - 1
             /\ tasks'[Len(tasks')].pc = "start"
             /\ UNCHANGED <<orders, venue_orders>>]_vars

\* C13 witness: place_order has returned and the order's submission has not
\* started: the order is stored as Created and no venue holds it.
C13_Witness ==
    /\ places = <<>>
    /\ \E t \in 1..Len(tasks) :
          /\ tasks[t].pc = "start"
          /\ tasks[t].order.id \in DOMAIN orders
          /\ orders[tasks[t].order.id].status = "Created"
          /\ \A name \in Venues : tasks[t].order.id \notin DOMAIN venue_orders[name]

\* C14: while only place_order, cancel_order, the submission task and the
\* worker act, an id leaves the active set only in a step after which its
\* stored status is terminal, and a stored order whose status is not
\* terminal is in the active set.
C14_ActiveIffNotTerminal ==
    [][nexternal' = 0 =>
          \A id \in DOMAIN orders' :
             /\ (id \in DOMAIN active_orders /\ id \notin DOMAIN active_orders')
                   => orders'[id].status \in TerminalStatus
             /\ orders'[id].status \notin TerminalStatus
                   => id \in DOMAIN active_orders']_vars

\* C15: when the worker applies an Update event to a stored order and the
\* resulting stored status is terminal, the order is not in the active set
\* after the step.
C15_TerminalUpdateRemoves ==
    [][(/\ WorkerStep
        /\ Head(channel).type = "Update"
        /\ Head(channel).order_id \in DOMAIN orders)
       => (orders'[Head(channel).order_id].status \in TerminalStatus
             => Head(channel).order_id \notin DOMAIN active_orders')]_vars

\* C18: the filled_quantity of a stored order never decreases in a step and
\* stays between 0 and the order's quantity.
C18_FilledQuantityBounded ==
    [][\A id \in DOMAIN orders :
          /\ orders'[id].filled_quantity >= orders[id].filled_quantity
          /\ orders'[id].filled_quantity >= 0
          /\ orders'[id].filled_quantity <= orders'[id].quantity]_vars

\* C16: an id that is stored but not in the active set (so it has been
\* removed from it) is not in the active set after any step.
C16_NeverReAdded ==
    [][\A id \in DOMAIN orders :
          id \notin DOMAIN active_orders => id \notin DOMAIN active_orders']_vars

\* C17: no step deletes an entry of the order store: an id get_order knows
\* is known after every step.
C17_StoreKeepsEntries ==
    [][DOMAIN orders \subseteq DOMAIN orders']_vars

\* C17 witness: an order was cancelled and removed from the active set, every
\* event has been applied, and it is still stored.
C17_Witness ==
    /\ Quiescent
    /\ active_orders = EmptyMap
    /\ \E id \in DOMAIN orders :
          orders[id].status = "Cancelled" /\ orders[id].notes = Some("user")

\* C19: while only place_order, cancel_order, the submission task and the
\* worker act, every change of a stored order's status is made by the
\* worker applying an event.
C19_StatusWrittenByWorkerOnly ==
    [][nexternal' = 0 =>
          \A id \in DOMAIN orders :
             orders'[id].status # orders[id].status => WorkerStep]_vars

\* C20: the channel changes only by a send that appends one event behind
\* the queued ones, or by the worker taking the oldest event and applying
\* exactly that event to the store and the active set: events are applied in
\* the order they were queued, one at a time, none skipped, none twice.
C20_EventsAppliedInOrderOnce ==
    [][channel' # channel =>
          \/ /\ Len(channel') = Len(channel) + 1
             /\ SubSeq(channel', 1, Len(channel)) = channel
          \/ /\ channel # <<>>
             /\ channel' = Tail(channel)
             /\ orders' = OrdersAfter(Head(channel))
             /\ active_orders' = ActiveAfter(Head(channel))]_vars

\* ------------------------------------------------------------------ C21
\* A producer completes a send in this step: place_order emits New and spawns
\* its task, the submission task sends its Update or Error, cancel_order emits
\* Cancel.
ProducerSends ==
    \/ Len(tasks') > Len(tasks)
    \/ \E t \in 1..Len(tasks) : /\ tasks[t].pc \in {"ok_send", "err_send"}
                                /\ tasks'[t].pc = "done"
    \/ \E c \in 1..Len(cancels) : ~cancels[c].emitted /\ cancels'[c].emitted

\* C21: no lifecycle event is ever dropped.  Every send a producer completes
\* puts its event at the back of the channel, and an event leaves the channel
\* only from the front, taken by the worker that applies it; so every event
\* sent reaches the worker.
C21_NoEventDropped ==
    [][/\ ProducerSends => /\ Len(channel') = Len(channel) + 1
                           /\ SubSeq(channel', 1, Len(channel)) = channel
       /\ channel' # channel /\ ~ProducerSends /\ nexternal' = nexternal
            => /\ WorkerStep
               /\ orders' = OrdersAfter(Head(channel))
               /\ active_orders' = ActiveAfter(Head(channel))]_vars

\* ------------------------------------------------------------------ C22
MaxStale == 2

\* Events that name no stored order: of every kind for ids the store does not
\* hold, an Error without an id (mod.rs 432-444), and a New event (mod.rs 357-360).
StaleEvents(ids) ==
    {[type |-> "Update", order_id |-> id, status |-> Some("Filled"),
      filled_qty |-> Some(2), avg_fill_price |-> None] : id \in ids}
    \cup {[type |-> "Cancel", order_id |-> id, reason |-> "stale"] : id \in ids}
    \cup {[type |-> "Reject", order_id |-> id, reason |-> "stale"] : id \in ids}
    \cup {[type |-> "Error", order_id |-> Some(id), message |-> "stale"] : id \in ids}
    \cup {[type |-> "Error", order_id |-> None, message |-> "stale"]}
    \cup {[type |-> "New", order |-> MkOrder(id, "BTC/USD", "Market", 2, None, None, "")] :
            id \in ids}

\* An order is placed on a manager that reaches no venue while other holders
\* of the sender put events on the channel that name no stored order.
StaleNext ==
    \/ /\ nplace < MaxPlace
       /\ \E new_v4 \in NewUuids :
            \E id \in {Nil, new_v4} :
              \E input \in ValidInputs(id) : PlaceOrder(input, new_v4)
    \/ PlaceEmit
    \/ \E t \in 1..Len(tasks) : SubmitPending(t)
    \/ \E t \in 1..Len(tasks) : SubmitRoute(t)
    \/ \E t \in 1..Len(tasks) : SubmitErrWrite(t)
    \/ \E t \in 1..Len(tasks) : SubmitErrRemove(t)
    \/ \E t \in 1..Len(tasks) : SubmitErrSend(t)
    \/ ProcessEvent
    \/ WorkerTimeout
    \/ /\ nexternal < MaxStale
       /\ \E ev \in StaleEvents(FreshIds) : SendEvent(ev)

SpecStale == Init /\ [][StaleNext]_vars

\* The event names no order the store holds at the time the worker takes it.
StaleEvent(ev) ==
    \/ ev.type = "New"
    \/ ev.type \in {"Update", "Cancel", "Reject"} /\ ev.order_id \notin DOMAIN orders
    \/ ev.type = "Error" /\ (IsNone(ev.order_id) \/ Unwrap(ev.order_id) \notin DOMAIN orders)

\* C22: the pipeline never halts on a stale event.  When the worker takes an
\* Update, Cancel, Reject or Error event that names an unknown order id, a New
\* event, or an Error event without an id, the store and the active set stay
\* as they are, no caller's call or task is touched, and the worker stays in
\* its loop, at once busy with the next event when one is queued.
C22_StaleEventsSkipped ==
    [][WorkerStep /\ StaleEvent(Head(channel))
         => /\ orders' = orders
            /\ active_orders' = active_orders
            /\ UNCHANGED <<tasks, places, cancels, place_log>>
            /\ worker' = IF channel' = <<>> THEN "idle" ELSE "busy"]_vars

\* C22 witness: the worker has taken every event, the stale ones included,
\* and is still in its loop; the task's Error event was applied to the one
\* stored order and nothing else ever touched it.
C22_Witness ==
    /\ nexternal = MaxStale
    /\ channel = <<>>
    /\ worker # "stopped"
    /\ \E id \in DOMAIN orders :
        /\ orders[id].status = "Failed"
        /\ orders[id].filled_quantity = 0
        /\ orders[id].notes # Some("stale")
        /\ status_seen[id] = {"Created", "PendingSubmission", "Failed"}
        /\ id \notin DOMAIN active_orders

\* ------------------------------------------------------------------ C23
\* The lock-level view of the manager.  Each thread runs one path through its
\* code; a path is the sequence of its lock operations, external calls and
\* channel sends, each with the line of mod.rs it stands for.
Acquire(lock, mode, line) == [op |-> "acquire", lock |-> lock, mode |-> mode, line |-> line]
Release(lock, line) == [op |-> "release", lock |-> lock, mode |-> "", line |-> line]
CallOut(line) == [op |-> "call", lock |-> "", mode |-> "", line |-> line]
CallBack(line) == [op |-> "return", lock |-> "", mode |-> "", line |-> line]
Send(line) == [op |-> "send", lock |-> "", mode |-> "", line |-> line]

\* update_order_status_internal (mod.rs 467-473), called from the given line.
StatusWrite(line) == <<Acquire("store", "write", line), Release("store", line)>>

\* Mutant of PlacePaths: the active-set guard is taken before the store guard.
PlacePathsActiveFirst ==
    {<<Acquire("active", "write", 189), Acquire("store", "write", 188),
       Release("store", 193), Release("active", 193), Send(196)>>}

\* place_order, a valid order (mod.rs 187-196): both write guards in one
\* block, dropped in reverse order of declaration, then the New event.
PlacePaths ==
    {<<Acquire("store", "write", 188), Acquire("active", "write", 189),
       Release("active", 193), Release("store", 193), Send(196)>>}

\* Mutant of TaskPaths: the PendingSubmission write guard is kept across the
\* router call.
TaskPathsHoldingStore ==
    {<<Acquire("store", "write", 208), CallOut(211), CallBack(211),
       Release("store", 211)>> \o StatusWrite(214) \o <<Send(224)>>}

\* The submission task (mod.rs 206-251): PendingSubmission, the router's
\* submit_order, then the Ok arm or the Err arm.
TaskPaths ==
    {StatusWrite(208) \o <<CallOut(211), CallBack(211)>> \o StatusWrite(214)
        \o <<Send(224)>>,
     StatusWrite(208) \o <<CallOut(211), CallBack(211)>> \o StatusWrite(232)
        \o <<Acquire("active", "write", 236), Release("active", 238), Send(246)>>}

\* cancel_order (mod.rs 262-306): the read of the active set, then nothing
\* more (not found, not cancellable), the Created arm, or the router arm
\* with the router's Ok or Err.
CancelPaths ==
    LET look == <<Acquire("active", "read", 265), Release("active", 267)>>
        finish == <<Acquire("active", "write", 289), Release("active", 291), Send(294)>>
    IN {look,
        look \o StatusWrite(277) \o finish,
        look \o <<CallOut(280), CallBack(280)>> \o finish,
        look \o <<CallOut(280), CallBack(280)>> \o StatusWrite(283) \o finish}

\* process_order_event (mod.rs 355-446): an Update that leaves the order
\* active or finds none, an Update to a terminal status, and the Cancel,
\* Reject and Error arms that find their order.
WorkerPaths ==
    {<<Acquire("store", "write", 366), Release("store", 392)>>,
     <<Acquire("store", "write", 366), Acquire("active", "write", 386),
       Release("active", 389), Release("store", 392)>>,
     <<Acquire("store", "write", 400), Acquire("active", "write", 407),
       Release("active", 410), Release("store", 412)>>}

\* get_order (mod.rs 308-311) and get_active_orders (mod.rs 313-316).
ReaderPaths ==
    {<<Acquire("store", "read", 309), Release("store", 311)>>,
     <<Acquire("active", "read", 314), Release("active", 316)>>}

LockThreads == {"place", "task", "cancel", "worker", "reader"}

LockPaths(t) ==
    IF t = "place" THEN PlacePaths
    ELSE IF t = "task" THEN TaskPaths
    ELSE IF t = "cancel" THEN CancelPaths
    ELSE IF t = "worker" THEN WorkerPaths
    ELSE ReaderPaths

\* The instruction thread t is at, if any.
LockRunning(t) == lock_threads[t][2] <= Len(lock_threads[t][1])
LockInstr(t) == lock_threads[t][1][lock_threads[t][2]]
LockAdvance(t) == lock_threads' = [lock_threads EXCEPT ![t][2] = @ + 1]

\* tokio::sync::RwLock: a write guard needs the lock free, a read guard
\* needs it free of writers.
LockGranted(lock, mode) ==
    IF mode = "write" THEN locks[lock] = {}
    ELSE \A g \in locks[lock] : g[2] = "read"

\* lock.write().await / lock.read().await.
LockAcquire(t) ==
    /\ LockRunning(t) /\ LockInstr(t).op = "acquire"
    /\ LockGranted(LockInstr(t).lock, LockInstr(t).mode)
    /\ locks' = [locks EXCEPT ![LockInstr(t).lock] = @ \cup {<<t, LockInstr(t).mode>>}]
    /\ LockAdvance(t)
    /\ UNCHANGED <<managerVars, routerVars, adapters, call, now, venue_orders, nexternal,
                   ever_submitted, status_seen, worker>>

\* The guard goes out of scope.
LockRelease(t) ==
    /\ LockRunning(t) /\ LockInstr(t).op = "release"
    /\ locks' = [locks EXCEPT ![LockInstr(t).lock] = {g \in @ : g[1] # t}]
    /\ LockAdvance(t)
    /\ UNCHANGED <<managerVars, routerVars, adapters, call, now, venue_orders, nexternal,
                   ever_submitted, status_seen, worker>>

\* order_router.submit_order / cancel_order is called (mod.rs 211, 280).
LockCallOut(t) ==
    /\ LockRunning(t) /\ LockInstr(t).op = "call"
    /\ LockAdvance(t)
    /\ UNCHANGED <<managerVars, routerVars, adapters, call, now, venue_orders, nexternal,
                   ever_submitted, status_seen, worker, locks>>

\* The router's call returns.
LockCallBack(t) ==
    /\ LockRunning(t) /\ LockInstr(t).op = "return"
    /\ LockAdvance(t)
    /\ UNCHANGED <<managerVars, routerVars, adapters, call, now, venue_orders, nexternal,
                   ever_submitted, status_seen, worker, locks>>

\* event_sender.send(..).await (mod.rs 196, 224, 246, 294).
LockSend(t) ==
    /\ LockRunning(t) /\ LockInstr(t).op = "send"
    /\ LockAdvance(t)
    /\ UNCHANGED <<managerVars, routerVars, adapters, call, now, venue_orders, nexternal,
                   ever_submitted, status_seen, worker, locks>>

\* Every thread is about to run one of its paths.
LocksInit ==
    /\ InitManager /\ InitRouter
    /\ lock_threads \in [LockThreads -> UNION {LockPaths(t) \X {1} : t \in LockThreads}]
    /\ \A t \in LockThreads : lock_threads[t][1] \in LockPaths(t)
    /\ locks = NoLocks

LocksNext ==
    \E t \in LockThreads :
        \/ LockAcquire(t)
        \/ LockRelease(t)
        \/ LockCallOut(t)
        \/ LockCallBack(t)
        \/ LockSend(t)

SpecLocks == LocksInit /\ [][LocksNext]_vars

\* Thread t is inside a router call: it has called and not yet returned.
InRouterCall(t) == LockRunning(t) /\ LockInstr(t).op = "return"

\* The guards thread t holds.
GuardsOf(t) == {lock \in {"store", "active"} : \E g \in locks[lock] : g[1] = t}

\* C23: no task holds the order-store lock or the active-set lock while a
\* router call is in progress; the submission task and cancel_order release
\* every map guard before the call starts and take one again only after the
\* call has returned.
C23_NoLockAcrossRouterCall ==
    \A t \in LockThreads : InRouterCall(t) => GuardsOf(t) = {}

\* C23 witness: the submission task and cancel_order are both inside their
\* router calls while the worker holds both map locks.
C23_Witness ==
    /\ InRouterCall("task")
    /\ InRouterCall("cancel")
    /\ GuardsOf("worker") = {"store", "active"}

\* ------------------------------------------------------------------ C24
\* a.can_transition_to(b) is about to be evaluated for some pair of statuses.
TransitionsInit ==
    /\ InitManager /\ InitLocks
    /\ exchanges = EmptyMap
    /\ primary_exchange_map = EmptyMap
    /\ venue_orders = [name \in Venues |-> EmptyMap]
    /\ adapters = EmptyMap
    /\ now = 0
    /\ call \in {[NoCall EXCEPT !.op = "can_transition_to", !.arg = <<a, b>>] :
                    a \in OrderStatus, b \in OrderStatus}

\* The call returns (mod.rs 33-57).
CanTransitionTo ==
    /\ call.op = "can_transition_to"
    /\ IsNone(call.result)
    /\ call' = [call EXCEPT !.result = Some(can_transition_to(call.arg[1], call.arg[2])),
                             !.n = 1 - @]
    /\ UNCHANGED <<managerVars, routerVars, adapters, lock_threads, locks, now, venue_orders,
                   nexternal, ever_submitted, status_seen, worker>>

SpecTransitions == TransitionsInit /\ [][CanTransitionTo]_vars

\* C24: a.can_transition_to(b) is true exactly when a = b or (a, b) is
\* Created->PendingSubmission, PendingSubmission->Submitted|Rejected|Failed,
\* Submitted->PartiallyFilled|Filled|Cancelled|Rejected|Failed or
\* PartiallyFilled->Filled|Cancelled|Failed; no terminal status can
\* transition to a different status.
C24_TransitionTable ==
    call.op = "can_transition_to" /\ IsSome(call.result) =>
        LET a == call.arg[1]
            b == call.arg[2]
            listed == {<<"Created", "PendingSubmission">>,
                       <<"PendingSubmission", "Submitted">>,
                       <<"PendingSubmission", "Rejected">>,
                       <<"PendingSubmission", "Failed">>,
                       <<"Submitted", "PartiallyFilled">>,
                       <<"Submitted", "Filled">>,
                       <<"Submitted", "Cancelled">>,
                       <<"Submitted", "Rejected">>,
                       <<"Submitted", "Failed">>,
                       <<"PartiallyFilled", "Filled">>,
                       <<"PartiallyFilled", "Cancelled">>,
                       <<"PartiallyFilled", "Failed">>}
        IN /\ Unwrap(call.result) <=> (a = b \/ <<a, b>> \in listed)
           /\ a \in {"Filled", "Cancelled", "Rejected", "Failed"} /\ a # b
                => ~Unwrap(call.result)

\* C24 witness: the self-transition of a terminal status was answered with
\* true.
C24_Witness ==
    /\ call.op = "can_transition_to"
    /\ call.arg = <<"Filled", "Filled">>
    /\ call.result = Some(TRUE)

\* --------------------------------------------------- the router on its own
\* Venue names the router's callers use.
RouterVenues == {"A", "B"}

\* Orders handed to OrderRouter::submit_order: venue named or left empty.
RouterOrders ==
    {MkOrder(id, "BTC/USD", "Market", 2, None, None, exchange) :
        id \in OrderIds, exchange \in {""} \cup RouterVenues}

\* The record of a finished call.
Returned(op, arg, result, called) ==
    [op |-> op, arg |-> arg, result |-> Some(result), called |-> called, n |-> 1 - call.n]

\* The orders in which a HashMap's iterator may yield the registered adapters
\* (router.rs 80): every arrangement of the keys.
IterationOrders ==
    {s \in [1..Cardinality(DOMAIN exchanges) -> DOMAIN exchanges] :
        \A i, j \in DOMAIN s : i # j => s[i] # s[j]}

\* Mutant of RouterRegisterExchange: a second adapter of the name replaces
\* the first.
RouterRegisterExchangeReplaces(name, connected) ==
    /\ exchanges' = MapPut(exchanges, name, [connected |-> connected, nth |-> Cardinality(DOMAIN exchanges) + 1])
    /\ call' = Returned("register_exchange", <<name, connected>>, "Ok", <<>>)
    /\ UNCHANGED <<managerVars, adapters, lock_threads, locks, now, primary_exchange_map,
                   venue_orders, nexternal, ever_submitted, status_seen, worker>>

\* OrderRouter::register_exchange (router.rs 28-39), from call to result; the
\* adapter is handed over connected or not.
\* nth is not a field of the code's registry: it records the position of the
\* registration, which the HashMap itself forgets.
RouterRegisterExchange(name, connected) ==
    /\ IF name \in DOMAIN exchanges
       THEN /\ call' = Returned("register_exchange", <<name, connected>>,
                                "Exchange already registered", <<>>)
            /\ UNCHANGED exchanges
       ELSE /\ exchanges' = MapPut(exchanges, name, [connected |-> connected, nth |-> Cardinality(DOMAIN exchanges) + 1])
            /\ call' = Returned("register_exchange", <<name, connected>>, "Ok", <<>>)
    /\ UNCHANGED <<managerVars, adapters, lock_threads, locks, now, primary_exchange_map,
                   venue_orders, nexternal, ever_submitted, status_seen, worker>>

\* OrderRouter::set_primary_exchange (router.rs 41-47), from call to result.
RouterSetPrimaryExchange(asset, exchange) ==
    /\ primary_exchange_map' = MapPut(primary_exchange_map, asset, exchange)
    /\ call' = Returned("set_primary_exchange", <<asset, exchange>>, "Ok", <<>>)
    /\ UNCHANGED <<managerVars, adapters, lock_threads, locks, now, exchanges,
                   venue_orders, nexternal, ever_submitted, status_seen, worker>>

\* Mutant of RouterSubmitOrder: an explicit venue that is not registered
\* falls back to the symbol's primary venue.
RouterSubmitOrderFallsBack(order) ==
    LET named == IF order.exchange # "" /\ order.exchange \in DOMAIN exchanges
                 THEN order
                 ELSE [order EXCEPT !.exchange = ""]
        target == ResolveExchange(named)
        reached == IF IsSome(target) /\ Unwrap(target) \in DOMAIN exchanges
                   THEN <<Unwrap(target)>> ELSE <<>>
    IN /\ venue_orders' = RouterSubmitEffect(named)
       /\ call' = Returned("submit_order", order, RouterSubmitResult(named), reached)
       /\ UNCHANGED <<managerVars, routerVars, adapters, lock_threads, locks, now,
                      nexternal, ever_submitted, status_seen, worker>>

\* OrderRouter::submit_order (router.rs 49-70), from call to result.
RouterSubmitOrder(order) ==
    LET target == ResolveExchange(order)
        reached == IF IsSome(target) /\ Unwrap(target) \in DOMAIN exchanges
                   THEN <<Unwrap(target)>> ELSE <<>>
    IN /\ venue_orders' = RouterSubmitEffect(order)
       /\ call' = Returned("submit_order", order, RouterSubmitResult(order), reached)
       /\ UNCHANGED <<managerVars, routerVars, adapters, lock_threads, locks, now,
                      nexternal, ever_submitted, status_seen, worker>>

\* Mutant of RouterCancelOrder: the result of the last adapter tried is
\* returned, an earlier acceptance is forgotten.
RouterCancelOrderLastWins(id) ==
    /\ \E order \in IterationOrders :
           LET last == Len(order)
               cancelled == {order[i] : i \in {j \in 1..last : VenueAcceptsCancel(order[j], id)}}
           IN /\ venue_orders' = [name \in DOMAIN venue_orders |->
                                    IF name \in cancelled
                                    THEN [venue_orders[name] EXCEPT ![id].status = "Cancelled",
                                                                    ![id].last_update = now]
                                    ELSE venue_orders[name]]
              /\ call' = IF last = 0
                         THEN Returned("cancel_order", id, "No exchanges registered", <<>>)
                         ELSE IF VenueAcceptsCancel(order[last], id)
                         THEN Returned("cancel_order", id, "Ok", order)
                         ELSE Returned("cancel_order", id, "Order not found on any exchange", order)
    /\ UNCHANGED <<managerVars, routerVars, adapters, lock_threads, locks, now,
                   nexternal, ever_submitted, status_seen, worker>>

\* OrderRouter::cancel_order (router.rs 72-94), from call to result: the
\* adapters are tried in the iterator's order up to the first that accepts.
RouterCancelOrder(id) ==
    /\ \E order \in IterationOrders :
           LET accepting == {i \in 1..Len(order) : VenueAcceptsCancel(order[i], id)}
               first == CHOOSE i \in accepting : \A j \in accepting : i <= j
           IN IF Len(order) = 0
              THEN /\ call' = Returned("cancel_order", id, "No exchanges registered", <<>>)
                   /\ UNCHANGED venue_orders
              ELSE IF accepting = {}
              THEN /\ call' = Returned("cancel_order", id, "Order not found on any exchange", order)
                   /\ UNCHANGED venue_orders
              ELSE /\ call' = Returned("cancel_order", id, "Ok", SubSeq(order, 1, first))
                   /\ venue_orders' = [venue_orders EXCEPT
                                           ![order[first]][id].status = "Cancelled",
                                           ![order[first]][id].last_update = now]
    /\ UNCHANGED <<managerVars, routerVars, adapters, lock_threads, locks, now,
                   nexternal, ever_submitted, status_seen, worker>>

\* OrderRouter::new, with the venues' order maps empty.
RouterInit ==
    /\ InitManager /\ InitLocks
    /\ exchanges = EmptyMap
    /\ primary_exchange_map = EmptyMap
    /\ venue_orders = [name \in RouterVenues |-> EmptyMap]
    /\ adapters = EmptyMap
    /\ call = NoCall
    /\ now = 0

RouterNext ==
    \/ \E name \in RouterVenues, connected \in BOOLEAN : RouterRegisterExchange(name, connected)
    \/ \E asset \in Symbols, exchange \in RouterVenues : RouterSetPrimaryExchange(asset, exchange)
    \/ \E order \in RouterOrders : RouterSubmitOrder(order)
    \/ \E id \in OrderIds : RouterCancelOrder(id)

SpecRouter == RouterInit /\ [][RouterNext]_vars

\* This step is a call of the router's operation op.
RouterCalled(op) == call' # call /\ call'.op = op

\* ------------------------------------------------------------------ C25
\* C25: the router's submit_order resolves the venue as order.exchange when
\* that is non-empty, else as the primary venue of order.symbol.  It returns
\* an error and reaches no adapter when the symbol has no mapping or the
\* resolved name is not registered (an unregistered explicit venue does not
\* fall back to the primary mapping); otherwise it calls submit on exactly
\* that adapter and returns that adapter's result.
C25_SubmitResolvesVenue ==
    [][RouterCalled("submit_order") =>
        LET order == call'.arg
            mapped == order.symbol \in DOMAIN primary_exchange_map
            unresolved == order.exchange = "" /\ ~mapped
            venue == IF order.exchange # "" THEN order.exchange
                     ELSE primary_exchange_map[order.symbol]
        IN IF unresolved \/ venue \notin DOMAIN exchanges
           THEN /\ call'.result # Some("Ok")
                /\ call'.called = <<>>
                /\ venue_orders' = venue_orders
           ELSE /\ call'.called = <<venue>>
                /\ \A other \in DOMAIN venue_orders \ {venue} :
                        venue_orders'[other] = venue_orders[other]
                /\ IF exchanges[venue].connected
                   THEN /\ call'.result = Some("Ok")
                        /\ order.id \in DOMAIN venue_orders'[venue]
                        /\ venue_orders'[venue][order.id].status = "Pending"
                   ELSE /\ call'.result = Some("Not connected to exchange")
                        /\ venue_orders' = venue_orders]_vars

\* C25 witness: an order naming an unregistered venue was refused although
\* its symbol's primary venue is registered and connected.
C25_Witness ==
    /\ call.op = "submit_order"
    /\ call.arg.exchange = "B"
    /\ "B" \notin DOMAIN exchanges
    /\ call.result = Some("Exchange not found")
    /\ "BTC/USD" \in DOMAIN primary_exchange_map
    /\ primary_exchange_map["BTC/USD"] = "A"
    /\ "A" \in DOMAIN exchanges /\ exchanges["A"].connected

\* ------------------------------------------------------------------ C26
\* C26: register_exchange fails when an adapter of the same name is already
\* registered and then leaves the registry as it was, the first adapter
\* staying; a new name is added and nothing else changes.
C26_DuplicateRegistrationRefused ==
    [][RouterCalled("register_exchange") =>
        LET name == call'.arg[1] IN
        IF name \in DOMAIN exchanges
        THEN /\ call'.result # Some("Ok")
             /\ exchanges' = exchanges
        ELSE /\ call'.result = Some("Ok")
             /\ DOMAIN exchanges' = DOMAIN exchanges \cup {name}
             /\ exchanges'[name].connected = call'.arg[2]
             /\ \A other \in DOMAIN exchanges : exchanges'[other] = exchanges[other]]_vars

\* C26 witness: a connected adapter was offered under the name of a
\* registered adapter that is not connected, and refused.
C26_Witness ==
    /\ call.op = "register_exchange"
    /\ call.arg = <<"A", TRUE>>
    /\ call.result = Some("Exchange already registered")
    /\ "A" \in DOMAIN exchanges /\ ~exchanges["A"].connected

\* ------------------------------------------------------------------ C27
\* C27: the router's cancel_order(id) returns success if and only if at
\* least one registered adapter accepts the cancel for the id; it returns an
\* error when no adapter is registered or every registered adapter rejects.
C27_CancelOkIffSomeAdapterAccepts ==
    [][RouterCalled("cancel_order") =>
        LET id == call'.arg
            accepts == {name \in DOMAIN exchanges :
                            exchanges[name].connected /\ id \in DOMAIN venue_orders[name]}
        IN /\ call'.result = Some("Ok") <=> accepts # {}
           /\ DOMAIN exchanges = {} => call'.result = Some("No exchanges registered")
           /\ accepts = {} => venue_orders' = venue_orders]_vars

\* C27 witness: with two adapters registered, one that rejects the cancel was
\* tried first and the cancel succeeded on the other.
C27_Witness ==
    /\ call.op = "cancel_order"
    /\ call.result = Some("Ok")
    /\ Len(call.called) = 2
    /\ venue_orders[call.called[2]][call.arg].status = "Cancelled"

\* ------------------------------------------------- a venue adapter on its own
MaxTime == 11
MaxInFlight == 2

\* The order an adapter's caller submits, cancels and asks about.
AdapterOrders == {MkOrder(id, "BTC/USD", "Market", 2, None, None, "") : id \in {1}}

\* Operations that only answer (crypto.rs 169-193, 328-392).
AdapterQueries ==
    {"get_supported_assets", "get_market_data", "get_account_balance", "get_positions"}

\* The accessors (crypto.rs 134-144).
AdapterAccessors == {"name", "exchange_type", "is_connected"}

\* get_order_status, the status it computes from the record it read
\* (crypto.rs 286-301); last_update is left as it was.
AdvanceOrderState(state) ==
    LET elapsed == now - state.last_update IN
    IF elapsed > 2 /\ state.status = "Pending"
        THEN [state EXCEPT !.status = "Open"]
    ELSE IF elapsed > 5 /\ state.status = "Open"
        THEN [state EXCEPT !.status = "PartiallyFilled",
                           !.filled_quantity = state.quantity \div 2]
    ELSE IF elapsed > 10 /\ state.status = "PartiallyFilled"
        THEN [state EXCEPT !.status = "Filled", !.filled_quantity = state.quantity]
    ELSE state

\* The adapter's calls in progress; connect and disconnect take &mut self
\* and so run only when there is none.
AdapterInFlight(name) == adapters[name].in_flight
Exclusive(name) == adapters[name].in_flight = <<>>
WithoutCall(name, i) ==
    [adapters EXCEPT ![name].in_flight =
        SubSeq(@, 1, i - 1) \o SubSeq(@, i + 1, Len(@))]

\* Mutant of AdapterConnect: the credentials are not looked at.
AdapterConnectUnchecked(name) ==
    /\ Exclusive(name)
    /\ adapters' = [adapters EXCEPT ![name].connected = TRUE]
    /\ call' = Returned("connect", <<name>>, "Ok", <<>>)
    /\ UNCHANGED <<managerVars, routerVars, lock_threads, locks, now, venue_orders,
                   nexternal, ever_submitted, status_seen, worker>>

\* CryptoExchange::connect with authenticate (crypto.rs 76-90, 146-156).
AdapterConnect(name) ==
    /\ Exclusive(name)
    /\ IF adapters[name].api_key /\ adapters[name].api_secret
       THEN /\ adapters' = [adapters EXCEPT ![name].connected = TRUE]
            /\ call' = Returned("connect", <<name>>, "Ok", <<>>)
       ELSE /\ call' = Returned("connect", <<name>>, "API key and secret are required", <<>>)
            /\ UNCHANGED adapters
    /\ UNCHANGED <<managerVars, routerVars, lock_threads, locks, now, venue_orders,
                   nexternal, ever_submitted, status_seen, worker>>

\* CryptoExchange::disconnect (crypto.rs 158-167).
AdapterDisconnect(name) ==
    /\ Exclusive(name)
    /\ adapters' = [adapters EXCEPT ![name].connected = FALSE]
    /\ call' = Returned("disconnect", <<name>>, "Ok", <<>>)
    /\ UNCHANGED <<managerVars, routerVars, lock_threads, locks, now, venue_orders,
                   nexternal, ever_submitted, status_seen, worker>>

\* Mutant of AdapterSubmitOrder: the order is recorded before the
\* connection is checked.
AdapterSubmitOrderRecordsFirst(name, order) ==
    /\ venue_orders' = [venue_orders EXCEPT ![name] = MapPut(@, order.id, NewOrderState(order))]
    /\ call' = Returned("submit_order", <<name, order.id>>,
                        IF adapters[name].connected THEN "Ok" ELSE "Not connected to exchange",
                        <<>>)
    /\ UNCHANGED <<managerVars, routerVars, adapters, lock_threads, locks, now,
                   nexternal, ever_submitted, status_seen, worker>>

\* CryptoExchange::submit_order (crypto.rs 195-233), at its insert.
AdapterSubmitOrder(name, order) ==
    /\ IF adapters[name].connected
       THEN /\ venue_orders' = [venue_orders EXCEPT
                                    ![name] = MapPut(@, order.id, NewOrderState(order))]
            /\ call' = Returned("submit_order", <<name, order.id>>, "Ok", <<>>)
       ELSE /\ call' = Returned("submit_order", <<name, order.id>>,
                                "Not connected to exchange", <<>>)
            /\ UNCHANGED venue_orders
    /\ UNCHANGED <<managerVars, routerVars, adapters, lock_threads, locks, now,
                   nexternal, ever_submitted, status_seen, worker>>

\* CryptoExchange::cancel_order up to its sleep (crypto.rs 235-258): the
\* connection check and the lookup.
AdapterCancelLookup(name, id) ==
    /\ IF ~adapters[name].connected
       THEN /\ call' = Returned("cancel_order", <<name, id>>, "Not connected to exchange", <<>>)
            /\ UNCHANGED adapters
       ELSE IF id \notin DOMAIN venue_orders[name]
       THEN /\ call' = Returned("cancel_order", <<name, id>>, "Order not found", <<>>)
            /\ UNCHANGED adapters
       ELSE /\ Len(AdapterInFlight(name)) < MaxInFlight
            /\ adapters' = [adapters EXCEPT ![name].in_flight =
                               Append(@, [op |-> "cancel_order", order_id |-> id,
                                          order_state |-> None])]
            /\ UNCHANGED call
    /\ UNCHANGED <<managerVars, routerVars, lock_threads, locks, now, venue_orders,
                   nexternal, ever_submitted, status_seen, worker>>

\* CryptoExchange::cancel_order from its write on (crypto.rs 260-270).
AdapterCancelWrite(name, i) ==
    /\ i \in 1..Len(AdapterInFlight(name))
    /\ AdapterInFlight(name)[i].op = "cancel_order"
    /\ LET id == AdapterInFlight(name)[i].order_id IN
       /\ venue_orders' = IF id \in DOMAIN venue_orders[name]
                          THEN [venue_orders EXCEPT ![name][id].status = "Cancelled",
                                                    ![name][id].last_update = now]
                          ELSE venue_orders
       /\ call' = Returned("cancel_order", <<name, id>>, "Ok", <<>>)
    /\ adapters' = WithoutCall(name, i)
    /\ UNCHANGED <<managerVars, routerVars, lock_threads, locks, now,
                   nexternal, ever_submitted, status_seen, worker>>

\* CryptoExchange::get_order_status up to its write (crypto.rs 273-301): the
\* connection check, the copy of the record and the status worked out on
\* the copy.
AdapterStatusRead(name, id) ==
    /\ IF ~adapters[name].connected
       THEN /\ call' = Returned("get_order_status", <<name, id>>, "Exchange not connected", <<>>)
            /\ UNCHANGED adapters
       ELSE IF id \notin DOMAIN venue_orders[name]
       THEN /\ call' = Returned("get_order_status", <<name, id>>, "Order not found", <<>>)
            /\ UNCHANGED adapters
       ELSE /\ Len(AdapterInFlight(name)) < MaxInFlight
            /\ adapters' = [adapters EXCEPT ![name].in_flight =
                               Append(@, [op |-> "get_order_status", order_id |-> id,
                                          order_state |->
                                            Some(AdvanceOrderState(venue_orders[name][id]))])]
            /\ UNCHANGED call
    /\ UNCHANGED <<managerVars, routerVars, lock_threads, locks, now, venue_orders,
                   nexternal, ever_submitted, status_seen, worker>>

\* CryptoExchange::get_order_status from its write on (crypto.rs 303-322):
\* the copy replaces the record, the response carries the copy's status.
AdapterStatusWrite(name, i) ==
    /\ i \in 1..Len(AdapterInFlight(name))
    /\ AdapterInFlight(name)[i].op = "get_order_status"
    /\ LET id == AdapterInFlight(name)[i].order_id
           order_state == Unwrap(AdapterInFlight(name)[i].order_state)
       IN /\ venue_orders' = IF id \in DOMAIN venue_orders[name]
                             THEN [venue_orders EXCEPT ![name][id] = order_state]
                             ELSE venue_orders
          /\ call' = Returned("get_order_status", <<name, id>>, "Ok", <<order_state.status>>)
    /\ adapters' = WithoutCall(name, i)
    /\ UNCHANGED <<managerVars, routerVars, lock_threads, locks, now,
                   nexternal, ever_submitted, status_seen, worker>>

\* get_supported_assets, get_market_data, get_account_balance, get_positions.
AdapterQuery(name, op) ==
    /\ call' = Returned(op, <<name>>,
                        IF adapters[name].connected THEN "Ok" ELSE "Not connected to exchange",
                        <<>>)
    /\ UNCHANGED <<managerVars, routerVars, adapters, lock_threads, locks, now, venue_orders,
                   nexternal, ever_submitted, status_seen, worker>>

\* name, exchange_type, is_connected: plain values, no Result.
AdapterAccessor(name, op) ==
    /\ call' = Returned(op, <<name>>,
                        IF op = "is_connected"
                        THEN (IF adapters[name].connected THEN "true" ELSE "false")
                        ELSE IF op = "name" THEN name
                        ELSE "Crypto",
                        <<>>)
    /\ UNCHANGED <<managerVars, routerVars, adapters, lock_threads, locks, now, venue_orders,
                   nexternal, ever_submitted, status_seen, worker>>

\* A second passes.
Tick ==
    /\ now < MaxTime
    /\ now' = now + 1
    /\ UNCHANGED <<managerVars, routerVars, adapters, call, lock_threads, locks, venue_orders,
                   nexternal, ever_submitted, status_seen, worker>>

\* CryptoExchange::new (crypto.rs 67-74) on a config with or without each
\* credential.
AdapterInit ==
    /\ InitManager /\ InitLocks
    /\ exchanges = EmptyMap
    /\ primary_exchange_map = EmptyMap
    /\ venue_orders = [name \in Venues |-> EmptyMap]
    /\ adapters \in [Venues -> {[connected |-> FALSE, api_key |-> k, api_secret |-> s,
                                 in_flight |-> <<>>] : k \in BOOLEAN, s \in BOOLEAN}]
    /\ call = NoCall
    /\ now = 0

AdapterNext ==
    \E name \in Venues :
        \/ AdapterConnect(name)
        \/ AdapterDisconnect(name)
        \/ \E order \in AdapterOrders : AdapterSubmitOrder(name, order)
        \/ \E order \in AdapterOrders : AdapterCancelLookup(name, order.id)
        \/ \E i \in 1..MaxInFlight : AdapterCancelWrite(name, i)
        \/ \E order \in AdapterOrders : AdapterStatusRead(name, order.id)
        \/ \E i \in 1..MaxInFlight : AdapterStatusWrite(name, i)
        \/ \E op \in AdapterQueries : AdapterQuery(name, op)
        \/ \E op \in AdapterAccessors : AdapterAccessor(name, op)
        \/ Tick

SpecAdapter == AdapterInit /\ [][AdapterNext]_vars

\* This step is the return of the adapter's operation op.
AdapterReturned(op) == call' # call /\ call'.op = op

\* ------------------------------------------------------------------ C28
\* C28: on an adapter that is not connected (never connected, connect
\* failed, or disconnected since), submit_order, cancel_order,
\* get_order_status, get_market_data, get_account_balance, get_positions and
\* get_supported_assets each return an error, and nothing done on the
\* adapter changes its per-order state; name, exchange_type and
\* is_connected always succeed.
C28_DisconnectedAdapterRefuses ==
    [][\A name \in Venues :
        /\ ~adapters[name].connected =>
              /\ venue_orders'[name] = venue_orders[name]
              /\ adapters'[name].in_flight = <<>>
              /\ call' # call /\ call'.arg[1] = name
                   /\ call'.op \in {"submit_order", "cancel_order", "get_order_status"}
                                       \cup AdapterQueries
                   => call'.result \in {Some("Not connected to exchange"),
                                        Some("Exchange not connected")}
        /\ call' # call /\ call'.arg[1] = name /\ call'.op \in AdapterAccessors
              => /\ call'.result \in {Some(name), Some("Crypto"), Some("true"), Some("false")}
                 /\ UNCHANGED <<adapters, venue_orders>>]_vars

\* C28 witness: an adapter that was connected and took an order has been
\* disconnected; the cancel of that order was refused and the order's
\* record is as it was.
C28_Witness ==
    \E name \in Venues :
        /\ ~adapters[name].connected
        /\ call.op = "cancel_order"
        /\ call.result = Some("Not connected to exchange")
        /\ call.arg[2] \in DOMAIN venue_orders[name]
        /\ venue_orders[name][call.arg[2]].status = "Pending"

\* ------------------------------------------------------------------ C29
\* C29: connect returns an error when the API key or the API secret is
\* absent, and is_connected then stays false; connect with both credentials
\* sets is_connected to true; disconnect always sets it back to false.
C29_ConnectNeedsCredentials ==
    [][\A name \in Venues :
        /\ AdapterReturned("connect") /\ call'.arg[1] = name =>
              IF adapters[name].api_key /\ adapters[name].api_secret
              THEN call'.result = Some("Ok") /\ adapters'[name].connected
              ELSE /\ call'.result = Some("API key and secret are required")
                   /\ ~adapters[name].connected
                   /\ ~adapters'[name].connected
        /\ AdapterReturned("disconnect") /\ call'.arg[1] = name =>
              call'.result = Some("Ok") /\ ~adapters'[name].connected
        /\ AdapterReturned("is_connected") /\ call'.arg[1] = name =>
              (call'.result = Some("true") <=> adapters[name].connected)]_vars

\* C29 witness: an adapter with a key and no secret was asked to connect,
\* was refused and is not connected.
C29_Witness ==
    \E name \in Venues :
        /\ adapters[name].api_key /\ ~adapters[name].api_secret
        /\ call.op = "connect"
        /\ call.result = Some("API key and secret are required")
        /\ ~adapters[name].connected

\* ------------------------------------------------------------------ C30
\* C30: an order cancelled by cancel_order while its status is Created never
\* reaches a venue.  Once such a cancel has returned Ok, the order's
\* submission task does not call the router's submit_order for it and the
\* stored status does not become PendingSubmission or Submitted (place_order
\* has returned; only the task and the worker run beside the cancel).
C30_CancelledCreatedNeverSubmitted ==
    [][\A c \in 1..Len(cancels) :
        LET id == cancels[c].order_id IN
        /\ nexternal' = 0
        /\ places = <<>>
        /\ cancels[c].result = "Ok"
        /\ cancels[c].seen = "Created"
        /\ status_seen[id] \subseteq {"Created", "Cancelled"}
        => /\ \A t \in 1..Len(tasks) :
                tasks[t].order.id = id =>
                    ~(tasks[t].pc = "submit" /\ tasks'[t].pc # "submit")
           /\ orders'[id].status \notin {"PendingSubmission", "Submitted"}]_vars

\* ------------------------------------------------------------------ C31
\* C31: the active-order set is a view of the store.  For every id in the
\* active set, the copy held there has the same status and filled_quantity
\* as the store's copy, so get_active_orders() and cancel_order's
\* cancellability check see the order's current stored status.
C31_ActiveCopyMatchesStore ==
    \A id \in DOMAIN active_orders :
        /\ id \in DOMAIN orders
        /\ active_orders[id].status = orders[id].status
        /\ active_orders[id].filled_quantity = orders[id].filled_quantity

\* ------------------------------------------------------------------ C32
MaxTicks == 1

\* Update events with one optional field present, all or none (mod.rs 101-106).
FieldEvents(ids) ==
    {[type |-> "Update", order_id |-> id, status |-> f[1], filled_qty |-> f[2],
      avg_fill_price |-> f[3]] :
        id \in ids,
        f \in {<<None, None, None>>,
               <<Some("PartiallyFilled"), None, None>>,
               <<None, Some(1), None>>,
               <<None, None, Some(7)>>,
               <<Some("PartiallyFilled"), Some(1), Some(7)>>}}

\* Orders are placed on a manager that reaches no venue, venue callbacks send
\* Update events for them, and the clock moves, by too little for the worker's
\* idle hour to pass.
UpdatesNext ==
    \/ /\ nplace < MaxOrders
       /\ \E new_v4 \in NewUuids :
              \E input \in {MkOrder(Nil, "BTC/USD", "Limit", 2, Some(5), None, "")} : PlaceOrder(input, new_v4)
    \/ PlaceEmit
    \/ \E t \in 1..Len(tasks) : SubmitPending(t)
    \/ \E t \in 1..Len(tasks) : SubmitRoute(t)
    \/ \E t \in 1..Len(tasks) : SubmitErrWrite(t)
    \/ \E t \in 1..Len(tasks) : SubmitErrRemove(t)
    \/ \E t \in 1..Len(tasks) : SubmitErrSend(t)
    \/ ProcessEvent
    \/ /\ nexternal < MaxUpdates
       /\ \E ev \in FieldEvents(DOMAIN orders) : SendEvent(ev)
    \/ now < MaxTicks /\ Tick

SpecUpdates == Init /\ [][UpdatesNext]_vars

\* C32: applying an Update event to a known order overwrites exactly the
\* fields present in the event (status, filled_quantity, average_fill_price)
\* and the update timestamp; an absent field keeps its value, the notes and
\* the trade parameters are unchanged, and no other order is modified.
C32_UpdateWritesPresentFields ==
    [][WorkerStep /\ Head(channel).type = "Update"
                  /\ Head(channel).order_id \in DOMAIN orders
         => LET ev == Head(channel)
                id == ev.order_id
                old == orders[id]
                new == orders'[id]
            IN /\ new.status = IF ev.status = None THEN old.status ELSE ev.status[1]
               /\ new.filled_quantity =
                    IF ev.filled_qty = None THEN old.filled_quantity ELSE ev.filled_qty[1]
               /\ new.average_fill_price =
                    IF ev.avg_fill_price = None THEN old.average_fill_price
                    ELSE ev.avg_fill_price
               /\ new.updated_at = now
               /\ \A f \in {"id", "symbol", "order_type", "quantity", "price",
                            "stop_price", "exchange", "notes"} : new[f] = old[f]
               /\ DOMAIN orders' = DOMAIN orders
               /\ \A other \in DOMAIN orders \ {id} : orders'[other] = orders[other]]_vars

\* C32 witness: beside another stored order, an order that had failed, with
\* the failure in its notes, took two Updates, the later after the clock
\* moved: one gave the filled quantity, one the status, and no average price
\* was ever given.
C32_Witness ==
    /\ Cardinality(DOMAIN orders) = MaxOrders
    /\ \E id \in DOMAIN orders :
        /\ orders[id].status = "PartiallyFilled"
        /\ "Failed" \in status_seen[id]
        /\ orders[id].notes # None
        /\ orders[id].filled_quantity = 1
        /\ orders[id].average_fill_price = None
        /\ orders[id].updated_at = MaxTicks

\* ------------------------------------------------------------------ C33
\* C33: applying a Cancel event (a Reject event, an Error event carrying an
\* order id) to a known order sets its stored status to Cancelled (Rejected,
\* Failed), sets its notes to the event's reason or message and removes it
\* from the active-order set, whatever the order's status was before.
C33_ForcedEventsApplied ==
    [][WorkerStep /\ Head(channel).type \in {"Cancel", "Reject", "Error"} =>
        LET ev == Head(channel)
            known == IF ev.type = "Error"
                     THEN ev.order_id # None /\ ev.order_id[1] \in DOMAIN orders
                     ELSE ev.order_id \in DOMAIN orders
            id == IF ev.type = "Error" THEN ev.order_id[1] ELSE ev.order_id
        IN known =>
            /\ orders'[id].status = IF ev.type = "Cancel" THEN "Cancelled"
                                    ELSE IF ev.type = "Reject" THEN "Rejected"
                                    ELSE "Failed"
            /\ orders'[id].notes = Some(IF ev.type = "Error" THEN ev.message ELSE ev.reason)
            /\ id \notin DOMAIN active_orders'
            /\ DOMAIN active_orders' = DOMAIN active_orders \ {id}]_vars

\* C33 witness: an order that had already failed took a Cancel event; it is
\* stored Cancelled with the cancel's reason and is out of the active set.
C33_Witness ==
    /\ channel = <<>>
    /\ \E id \in DOMAIN orders :
        /\ "Failed" \in status_seen[id]
        /\ orders[id].status = "Cancelled"
        /\ orders[id].notes \in {Some(r) : r \in CancelReasons}
        /\ id \notin DOMAIN active_orders

\* ------------------------------------------------------------------ C34
\* The place of a venue-side status on the way Pending -> Open ->
\* PartiallyFilled -> Filled.
VenueRank(status) ==
    IF status = "Pending" THEN 0
    ELSE IF status = "Open" THEN 1
    ELSE IF status = "PartiallyFilled" THEN 2
    ELSE 3

\* C34: in the simulated venue an order's status only moves forward along
\* Pending -> Open -> PartiallyFilled -> Filled, by at most one step at a
\* time; its filled quantity is 0 before PartiallyFilled, half the quantity
\* at PartiallyFilled and the full quantity at Filled, so it never decreases
\* and never exceeds the quantity; a Cancelled order does not advance.  (A
\* submit_order that records the id anew starts the order over.)
C34_VenueStatusMovesForward ==
    [][\A name \in DOMAIN venue_orders : \A id \in DOMAIN venue_orders[name] :
        LET old == venue_orders[name][id]
            new == venue_orders'[name][id]
        IN ~AdapterReturned("submit_order") =>
            /\ old.status = "Cancelled" => new.status = "Cancelled"
            /\ new.status # "Cancelled" =>
                  /\ VenueRank(new.status) \in {VenueRank(old.status), VenueRank(old.status) + 1}
                  /\ new.status \in {"Pending", "Open"} => new.filled_quantity = 0
                  /\ new.status = "PartiallyFilled" => 2 * new.filled_quantity = new.quantity
                  /\ new.status = "Filled" => new.filled_quantity = new.quantity
            /\ new.filled_quantity >= old.filled_quantity
            /\ new.filled_quantity <= new.quantity]_vars

\* ------------------------------------------------------------------ C35
\* C35: the router's cancel_order probes the registered adapters in
\* registration order and stops at the first that accepts; when several
\* registered adapters hold the order, only the earliest-registered one
\* receives a successful cancel and no adapter registered after it is called.
C35_CancelProbesInRegistrationOrder ==
    [][RouterCalled("cancel_order") =>
        LET id == call'.arg
            probed == call'.called
            accepts == {name \in DOMAIN exchanges : VenueAcceptsCancel(name, id)}
        IN /\ \A i, j \in 1..Len(probed) :
                i < j => exchanges[probed[i]].nth < exchanges[probed[j]].nth
           /\ accepts # {} =>
                /\ probed[Len(probed)] \in accepts
                /\ \A name \in accepts : exchanges[probed[Len(probed)]].nth <= exchanges[name].nth
                /\ \A name \in DOMAIN exchanges :
                      exchanges[name].nth > exchanges[probed[Len(probed)]].nth
                          => \A i \in 1..Len(probed) : probed[i] # name]_vars

\* ------------------------------------------------------------------ C36
\* C36: of two cancel_order calls for the same active order that run
\* concurrently, at most one returns success and at most one Cancel event for
\* the order is put on the channel.
C36_OneCancelSucceeds ==
    \A id \in OrderIds :
        /\ Cardinality({k \in 1..Len(cancels) :
                          cancels[k].order_id = id /\ cancels[k].result = "Ok"}) <= 1
        /\ Cardinality({k \in 1..Len(cancels) :
                          cancels[k].order_id = id /\ cancels[k].emitted}) <= 1

\* ------------------------------------------------------------------ C37
\* C37: once the adapter's cancel_order has returned success for an order, the
\* adapter's recorded status for the order is Cancelled and stays Cancelled
\* under every interleaving with concurrent get_order_status calls on it.
C37_CancelledStaysCancelled ==
    [][(\/ \E name \in Venues : \E order \in AdapterOrders : AdapterStatusRead(name, order.id)
        \/ \E name \in Venues : \E i \in 1..MaxInFlight : AdapterStatusWrite(name, i))
       => \A name \in Venues : \A id \in DOMAIN venue_orders[name] :
             venue_orders[name][id].status = "Cancelled"
                 => /\ id \in DOMAIN venue_orders'[name]
                    /\ venue_orders'[name][id].status = "Cancelled"]_vars

\* ------------------------------------------------------------------ C38
\* C38: place_order never replaces an existing record: called with a non-nil
\* id that is already in the order store, it leaves the stored record's
\* status, filled quantity and notes as they were and does not put an order
\* that had been removed from the active set back into it.
C38_PlaceKeepsExistingRecord ==
    [][(nplace' = nplace + 1 /\ Len(places') = Len(places) + 1) =>
        LET id == places'[Len(places')].order.id IN
        id \in DOMAIN orders =>
            /\ orders'[id].status = orders[id].status
            /\ orders'[id].filled_quantity = orders[id].filled_quantity
            /\ orders'[id].notes = orders[id].notes
            /\ id \notin DOMAIN active_orders => id \notin DOMAIN active_orders']_vars

\* ------------------------------------------------------------------ C39
\* The number of free slots the model follows the event channel through: it
\* starts with at most this many slots free and the worker is followed while
\* no more than this many are free.
MaxRoom == 1

\* event_sender.send(..).await on the bounded channel (mpsc::channel(100),
\* mod.rs 127; sends at 196, 224, 246, 294): the sender waits while the
\* channel is full.  The queued event is stood for by the line that sent it.
LockSendWaits(t) ==
    /\ LockRunning(t) /\ LockInstr(t).op = "send"
    /\ Len(channel) < ChannelCapacity
    /\ channel' = Append(channel, LockInstr(t).line)
    /\ LockAdvance(t)
    /\ UNCHANGED <<orders, active_orders, tasks, places, cancels, place_log, nplace,
                   routerVars, adapters, call, now, venue_orders, nexternal,
                   ever_submitted, status_seen, worker, locks>>

\* The worker's loop (mod.rs 147-153): between two events it holds no guard;
\* event_receiver.recv() takes the next event and process_order_event runs
\* one of its paths.
LockRecv ==
    /\ ~LockRunning("worker")
    /\ Len(channel) > ChannelCapacity - MaxRoom
    /\ channel' = Tail(channel)
    /\ \E path \in WorkerPaths :
          lock_threads' = [lock_threads EXCEPT !["worker"] = <<path, 1>>]
    /\ UNCHANGED <<orders, active_orders, tasks, places, cancels, place_log, nplace,
                   routerVars, adapters, call, now, venue_orders, nexternal,
                   ever_submitted, status_seen, worker, locks>>

\* What thread t can do next.
LockStep(t) ==
    \/ LockAcquire(t)
    \/ LockRelease(t)
    \/ LockCallOut(t)
    \/ LockCallBack(t)
    \/ LockSendWaits(t)
    \/ (t = "worker" /\ LockRecv)

\* The callers are about to run one of their paths, the worker waits in
\* recv(), and earlier calls have left the channel full or nearly full
\* (line 0 stands for their events).
DeadlockInit ==
    /\ orders = EmptyMap /\ active_orders = EmptyMap
    /\ tasks = <<>> /\ places = <<>> /\ cancels = <<>>
    /\ place_log = [input |-> None, verdict |-> ""]
    /\ nplace = 0 /\ nexternal = 0
    /\ ever_submitted = {} /\ status_seen = EmptyMap
    /\ worker = "idle"
    /\ InitRouter
    /\ \E n \in (ChannelCapacity - MaxRoom)..ChannelCapacity : channel = [i \in 1..n |-> 0]
    /\ lock_threads \in [LockThreads ->
                           UNION {LockPaths(t) \X {1} : t \in LockThreads} \cup {<<<<>>, 1>>}]
    /\ \A t \in LockThreads \ {"worker"} : lock_threads[t][1] \in LockPaths(t)
    /\ lock_threads["worker"] = <<<<>>, 1>>
    /\ locks = NoLocks

DeadlockNext == \E t \in LockThreads : LockStep(t)

\* tokio runs every task that is ready, its RwLock and the channel's permits
\* are handed out in arrival order: a step that stays possible is taken.
SpecDeadlock ==
    DeadlockInit /\ [][DeadlockNext]_vars /\ \A t \in LockThreads : WF_vars(LockStep(t))

\* C39: the order manager cannot deadlock: a task that holds the store lock
\* and the active-set lock together is place_order or the worker and took the
\* store lock first, no task waits for the store lock while holding the
\* active-set lock, no producer holds a lock while it sends on the channel;
\* and so every place_order, cancel_order, submission and read completes and
\* every event the worker has received is applied.
C39_NoDeadlock ==
    /\ [](\A t \in LockThreads :
            /\ GuardsOf(t) = {"store", "active"} => t \in {"place", "worker"}
            /\ (LockRunning(t) /\ LockInstr(t).op = "acquire" /\ LockInstr(t).lock = "store")
                   => "active" \notin GuardsOf(t)
            /\ (LockRunning(t) /\ LockInstr(t).op = "send") => GuardsOf(t) = {})
    /\ \A t \in LockThreads \ {"worker"} : <>(~LockRunning(t))
    /\ []<>(~LockRunning("worker"))

\* C39 witness: the channel is full and place_order waits to send its New
\* event with no guard, while the worker holds the store lock and waits for
\* the active-set lock that cancel_order holds.
C39_Witness ==
    /\ Len(channel) = ChannelCapacity
    /\ LockRunning("place") /\ LockInstr("place").op = "send"
    /\ GuardsOf("place") = {}
    /\ GuardsOf("worker") = {"store"}
    /\ LockRunning("worker") /\ LockInstr("worker").op = "acquire"
    /\ GuardsOf("cancel") = {"active"}

\* ------------------------------------------------------------------ C40
\* C40: in every reachable state the ids of the active-order set are ids of
\* the order store: get_active_orders() never returns an order that
\* get_order does not know.
C40_ActiveIdsAreStored ==
    \A id \in DOMAIN active_orders : id \in DOMAIN orders

\* C40 witness: two orders are stored, the failed submission of one has taken
\* it out of the active set, the other is still active and every event has
\* been applied.
C40_Witness ==
    /\ Cardinality(DOMAIN orders) = 2
    /\ Cardinality(DOMAIN active_orders) = 1
    /\ \E id \in DOMAIN orders \ DOMAIN active_orders : "Failed" \in status_seen[id]
    /\ channel = <<>>
====
